---- MODULE Spec2Model ----
(***************************************************************************)
(* Model of scripts/process_issue.py: an issue (a free-text transaction    *)
(* report) is parsed, written to a ledger file, applied to an inventory    *)
(* file, and the reports are rebuilt.  Files are sequences of rows.  Text  *)
(* is a sequence of one-character strings, so validation and parsing are   *)
(* computed on the characters as the code computes them.  Money is kept in *)
(* cents (the code formats every stored price and amount with two          *)
(* decimals).                                                              *)
(***************************************************************************)
EXTENDS Integers, Sequences, FiniteSets, TLC

\* ------------------------------------------------------------------------
\* Bounds
\* ------------------------------------------------------------------------

\* Number of invocations of main() in one behaviour.
MaxRuns == 2

\* ------------------------------------------------------------------------
\* Text
\* ------------------------------------------------------------------------

Digits == <<"0", "1", "2", "3", "4", "5", "6", "7", "8", "9">>

UpperLetters ==
  <<"A", "B", "C", "D", "E", "F", "G", "H", "I", "J", "K", "L", "M",
    "N", "O", "P", "Q", "R", "S", "T", "U", "V", "W", "X", "Y", "Z">>

LowerLetters ==
  <<"a", "b", "c", "d", "e", "f", "g", "h", "i", "j", "k", "l", "m",
    "n", "o", "p", "q", "r", "s", "t", "u", "v", "w", "x", "y", "z">>

Range(s) == {s[i] : i \in DOMAIN s}

IsDigit(c) == c \in Range(Digits)

DigitVal(c) == (CHOOSE i \in DOMAIN Digits : Digits[i] = c) - 1

\* str.lower() on one character.
LowerChar(c) ==
  IF c \in Range(UpperLetters)
  THEN LowerLetters[CHOOSE i \in DOMAIN UpperLetters : UpperLetters[i] = c]
  ELSE c

\* str.lower()
Lower(s) == [i \in DOMAIN s |-> LowerChar(s[i])]

\* s.startswith(p)
StartsWith(s, p) == Len(s) >= Len(p) /\ SubSeq(s, 1, Len(p)) = p

\* p in s
Contains(s, p) ==
  \E i \in 0..(Len(s) - Len(p)) : SubSeq(s, i + 1, i + Len(p)) = p

\* The value of a non-empty sequence of digits.
RECURSIVE DigitsValue(_)
DigitsValue(s) ==
  IF s = <<>> THEN 0
  ELSE 10 * DigitsValue(SubSeq(s, 1, Len(s) - 1)) + DigitVal(s[Len(s)])

AllDigits(s) == s # <<>> /\ \A i \in DOMAIN s : IsDigit(s[i])

\* int(s) of a stripped string: an optional sign and decimal digits; anything
\* else raises ValueError (ok = FALSE).
PyInt(s) ==
  IF AllDigits(s) THEN [ok |-> TRUE, val |-> DigitsValue(s)]
  ELSE IF s # <<>> /\ s[1] \in {"+", "-"} /\ AllDigits(Tail(s))
  THEN [ok |-> TRUE,
        val |-> IF s[1] = "-" THEN 0 - DigitsValue(Tail(s))
                ELSE DigitsValue(Tail(s))]
  ELSE [ok |-> FALSE, val |-> 0]

\* A float: a number (in cents) or NaN.
NaN == [ok |-> FALSE, val |-> 0]

Num(v) == [ok |-> TRUE, val |-> v]

\* pd.isna / pd.notna
isna(x) == ~x.ok

\* An unsigned decimal literal with at most two decimals, in cents.  Literals
\* with more decimals are outside the model (the CASE has no arm for them).
Unsigned(s) ==
  LET dot == {i \in DOMAIN s : s[i] = "."}
      d == IF dot = {} THEN Len(s) + 1 ELSE CHOOSE i \in dot : TRUE
      whole == SubSeq(s, 1, d - 1)
      frac == SubSeq(s, d + 1, Len(s))
      digits == \A i \in DOMAIN s : i # d => IsDigit(s[i])
  IN CASE Cardinality(dot) > 1 \/ ~digits \/ (whole = <<>> /\ frac = <<>>) -> NaN
       [] Cardinality(dot) <= 1 /\ digits /\ frac = <<>> /\ whole # <<>> ->
            Num(100 * DigitsValue(whole))
       [] Cardinality(dot) = 1 /\ digits /\ Len(frac) = 1 ->
            Num(100 * DigitsValue(whole) + 10 * DigitsValue(frac))
       [] Cardinality(dot) = 1 /\ digits /\ Len(frac) = 2 ->
            Num(100 * DigitsValue(whole) + DigitsValue(frac))

\* pd.to_numeric(s, errors="coerce") of a price cell: a decimal literal with an
\* optional sign gives its value; a string that is no number gives NaN.
ToNumeric(s) ==
  IF s # <<>> /\ s[1] \in {"+", "-"}
  THEN LET v == Unsigned(Tail(s))
       IN IF isna(v) THEN NaN ELSE IF s[1] = "-" THEN Num(0 - v.val) ELSE v
  ELSE Unsigned(s)

\* ------------------------------------------------------------------------
\* Validation and parsing of the Items table
\* ------------------------------------------------------------------------

SkuAlphabet == Range(UpperLetters) \cup Range(Digits) \cup {"-", ":"}

\* is_valid_sku, on a stripped cell.
is_valid_sku(s) ==
  /\ s # <<>>
  /\ ~StartsWith(s, <<"*", "*">>)
  /\ " " \notin Range(s)
  /\ Len(s) >= 3
  /\ \A i \in DOMAIN s : s[i] \in SkuAlphabet

\* "|".join(parts)
RECURSIVE Join(_)
Join(parts) ==
  IF parts = <<>> THEN <<>>
  ELSE IF Len(parts) = 1 THEN parts[1]
  ELSE parts[1] \o <<"|">> \o Join(Tail(parts))

\* The first n elements: parts[:n]
Take(s, n) == SubSeq(s, 1, IF Len(s) < n THEN Len(s) ELSE n)

W_sku == <<"s", "k", "u">>
W_cantidad == <<"c", "a", "n", "t", "i", "d", "a", "d">>
W_dashes == <<"-", "-", "-">>

\* One line of the Items section, stripped and split on "|" with every part
\* stripped: a line with no "|" (a blank line too) has one part.
HasPipe(parts) == Len(parts) > 1

\* The header and separator rows that parse_items_table skips.
IsHeaderRow(parts) ==
  LET head == Join([i \in DOMAIN Take(parts, 3) |-> Lower(parts[i])])
  IN \/ (Contains(head, W_sku) /\ Contains(head, W_cantidad))
     \/ StartsWith(Join(parts), W_dashes)

\* RowItem with a quantity that int() rejects taken as 1, as the single-item
\* fallback of parse_issue does.
RowItem_bad_qty_is_one(parts, has_price) ==
  LET need == IF has_price THEN 3 ELSE 2
      q == PyInt(parts[2])
      qty == IF q.ok THEN q ELSE [ok |-> TRUE, val |-> 1]
  IN IF Len(parts) < need \/ ~is_valid_sku(parts[1]) THEN [ok |-> FALSE]
     ELSE IF qty.val <= 0 THEN [ok |-> FALSE]
     ELSE IF has_price
     THEN [ok |-> TRUE,
           rec |-> [item |-> parts[1], cantidad |-> qty.val, precio_unit |-> parts[3]]]
     ELSE [ok |-> TRUE, rec |-> [item |-> parts[1], cantidad |-> qty.val]]

\* The item of one row, as the try block of parse_items_table builds it; ok is
\* FALSE when the row is skipped (too few cells, invalid SKU, int() raising,
\* quantity not positive).
RowItem(parts, has_price) ==
  LET need == IF has_price THEN 3 ELSE 2
      qty == PyInt(parts[2])
  IN IF Len(parts) < need \/ ~is_valid_sku(parts[1]) THEN [ok |-> FALSE]
     ELSE IF ~qty.ok \/ qty.val <= 0 THEN [ok |-> FALSE]
     ELSE IF has_price
     THEN [ok |-> TRUE,
           rec |-> [item |-> parts[1], cantidad |-> qty.val, precio_unit |-> parts[3]]]
     ELSE [ok |-> TRUE, rec |-> [item |-> parts[1], cantidad |-> qty.val]]

\* The loop of parse_items_table over the lines of the section, from line i
\* with the items accepted so far.
RECURSIVE ParseLines(_, _, _, _)
ParseLines(lines, i, out, has_price) ==
  IF i > Len(lines) THEN out
  ELSE LET parts == lines[i]
       IN IF ~HasPipe(parts)
          THEN IF out # <<>> THEN out
               ELSE ParseLines(lines, i + 1, out, has_price)
          ELSE IF IsHeaderRow(parts)
          THEN ParseLines(lines, i + 1, out, has_price)
          ELSE LET r == RowItem(parts, has_price)
               IN ParseLines(lines, i + 1,
                             IF r.ok THEN Append(out, r.rec) ELSE out, has_price)

\* parse_items_table: section is the text after the Items heading as a sequence
\* of lines (empty when there is no heading or nothing follows it).
parse_items_table(section, has_price) ==
  IF section = <<>> THEN <<>> ELSE ParseLines(section, 1, <<>>, has_price)

\* ------------------------------------------------------------------------
\* Dates
\* ------------------------------------------------------------------------

\* The parts of s between occurrences of sep.
RECURSIVE SplitOn(_, _)
SplitOn(s, sep) ==
  IF \A i \in DOMAIN s : s[i] # sep THEN <<s>>
  ELSE LET k == CHOOSE i \in DOMAIN s :
                  s[i] = sep /\ \A j \in 1..(i - 1) : s[j] # sep
       IN <<SubSeq(s, 1, k - 1)>> \o SplitOn(SubSeq(s, k + 1, Len(s)), sep)

\* n in decimal digits, zero-padded to width w.
RECURSIVE Pad(_, _)
Pad(n, w) ==
  IF w = 0 THEN <<>> ELSE Pad(n \div 10, w - 1) \o <<Digits[(n % 10) + 1]>>

IsLeap(y) == (y % 4 = 0 /\ y % 100 # 0) \/ y % 400 = 0

DaysInMonth(y, m) ==
  IF m = 2 THEN (IF IsLeap(y) THEN 29 ELSE 28)
  ELSE IF m \in {4, 6, 9, 11} THEN 30 ELSE 31

\* strptime directives %Y (four digits), %m and %d (one or two digits, in range).
DirY(t) == Len(t) = 4 /\ AllDigits(t)
DirM(t) == Len(t) \in {1, 2} /\ AllDigits(t) /\ DigitsValue(t) \in 1..12
DirD(t) == Len(t) \in {1, 2} /\ AllDigits(t) /\ DigitsValue(t) \in 1..31

\* date(y, m, d).isoformat(), or no date when the constructor raises.
IsoDate(y, m, d) ==
  IF y >= 1 /\ d <= DaysInMonth(y, m)
  THEN [ok |-> TRUE, iso |-> Pad(y, 4) \o <<"-">> \o Pad(m, 2) \o <<"-">> \o Pad(d, 2)]
  ELSE [ok |-> FALSE, iso |-> <<>>]

\* datetime.strptime(s, fmt).date().isoformat() for the three formats.
StrpYmd(s, sep) ==
  LET t == SplitOn(s, sep)
  IN IF Len(t) = 3 /\ DirY(t[1]) /\ DirM(t[2]) /\ DirD(t[3])
     THEN IsoDate(DigitsValue(t[1]), DigitsValue(t[2]), DigitsValue(t[3]))
     ELSE [ok |-> FALSE, iso |-> <<>>]

\* StrpDmy with the month read before the day (%m/%d/%Y).
StrpDmy_month_first(s, sep) ==
  LET t == SplitOn(s, sep)
  IN IF Len(t) = 3 /\ DirM(t[1]) /\ DirD(t[2]) /\ DirY(t[3])
     THEN IsoDate(DigitsValue(t[3]), DigitsValue(t[1]), DigitsValue(t[2]))
     ELSE [ok |-> FALSE, iso |-> <<>>]

StrpDmy(s, sep) ==
  LET t == SplitOn(s, sep)
  IN IF Len(t) = 3 /\ DirD(t[1]) /\ DirM(t[2]) /\ DirY(t[3])
     THEN IsoDate(DigitsValue(t[3]), DigitsValue(t[2]), DigitsValue(t[1]))
     ELSE [ok |-> FALSE, iso |-> <<>>]

\* datetime.now(timezone.utc).date().isoformat(): the day of the run.
Today == <<"2", "0", "2", "5", "-", "1", "0", "-", "2", "0">>

\* safe_parse_date with the text returned as written when a format matches.
safe_parse_date_as_written(s, issue) ==
  IF StrpYmd(s, "-").ok \/ StrpDmy(s, "/").ok \/ StrpYmd(s, "/").ok THEN s
  ELSE IF issue.created_at # <<>> THEN Take(issue.created_at, 10)
  ELSE Today

\* safe_parse_date
safe_parse_date(s, issue) ==
  IF StrpYmd(s, "-").ok THEN StrpYmd(s, "-").iso
  ELSE IF StrpDmy(s, "/").ok THEN StrpDmy(s, "/").iso
  ELSE IF StrpYmd(s, "/").ok THEN StrpYmd(s, "/").iso
  ELSE IF issue.created_at # <<>> THEN Take(issue.created_at, 10)
  ELSE Today

\* ------------------------------------------------------------------------
\* parse_issue
\* ------------------------------------------------------------------------

W_tarjeta == <<"t", "a", "r", "j", "e", "t", "a">>
W_efectivo == <<"e", "f", "e", "c", "t", "i", "v", "o">>
L_venta == <<"v", "e", "n", "t", "a">>
L_venta_mercado == <<"v", "e", "n", "t", "a", "-", "m", "e", "r", "c", "a", "d", "o">>
L_mercado == <<"m", "e", "r", "c", "a", "d", "o">>
L_produccion == <<"p", "r", "o", "d", "u", "c", "c", "i", "o", "n">>
L_produccion_acento == <<"p", "r", "o", "d", "u", "c", "c", "i", "ó", "n">>
L_abasto_mercado == <<"a", "b", "a", "s", "t", "o", "-", "m", "e", "r", "c", "a", "d", "o">>
L_traspaso_mercado == <<"t", "r", "a", "s", "p", "a", "s", "o", "-", "m", "e", "r", "c", "a", "d", "o">>

\* An issue is [html_url, title, created_at, labels, body]; body holds what
\* grab_field returns for each labelled field (stripped, empty when the field
\* is absent) and the lines that follow the Items heading:
\* [Fecha, Notas, Metodo, Item, Cantidad, Precio, section].

\* MetodoPago with the field compared as written, not in lower case.
MetodoPago_case_sensitive(issue) ==
  LET metodo == issue.body.Metodo
      norm == IF metodo \notin {W_tarjeta, W_efectivo, <<>>} THEN W_efectivo ELSE metodo
  IN IF norm = <<>>
     THEN (IF Contains(Lower(issue.title), W_tarjeta) THEN W_tarjeta ELSE W_efectivo)
     ELSE norm

\* The payment method of parse_issue.
MetodoPago(issue) ==
  LET metodo == Lower(issue.body.Metodo)
      norm == IF metodo \notin {W_tarjeta, W_efectivo, <<>>} THEN W_efectivo ELSE metodo
  IN IF norm = <<>>
     THEN (IF Contains(Lower(issue.title), W_tarjeta) THEN W_tarjeta ELSE W_efectivo)
     ELSE norm

\* SingleItem with a quantity that int() rejects taken as 0.
SingleItem_bad_qty_is_zero(body, with_price) ==
  LET cant == PyInt(body.Cantidad)
      cant_i == IF cant.ok THEN cant.val ELSE 0
  IN IF with_price
     THEN <<[item |-> body.Item, cantidad |-> cant_i, precio_unit |-> body.Precio]>>
     ELSE <<[item |-> body.Item, cantidad |-> cant_i]>>

\* The single-item fallback of parse_issue.
SingleItem(body, with_price) ==
  LET cant == PyInt(body.Cantidad)
      cant_i == IF cant.ok THEN cant.val ELSE 1
  IN IF with_price
     THEN <<[item |-> body.Item, cantidad |-> cant_i, precio_unit |-> body.Precio]>>
     ELSE <<[item |-> body.Item, cantidad |-> cant_i]>>

\* The branch of parse_issue for one kind of transaction: the table when it
\* yields an item, else the single item.
Branch(kind, body, with_price) ==
  LET table_items == parse_items_table(body.section, with_price)
  IN IF table_items # <<>>
     THEN [type |-> <<kind, "multi">>, items |-> table_items]
     ELSE [type |-> <<kind, "single">>, items |-> SingleItem(body, with_price)]

\* parse_issue.  The type "venta_multi" is <<"venta", "multi">>, and so on; the
\* type "none" is <<"none">>.
parse_issue(issue) ==
  LET labels == {Lower(l) : l \in issue.labels}
      body == issue.body
      base == [fecha |-> safe_parse_date(body.Fecha, issue),
               issue_url |-> issue.html_url,
               labels |-> labels,
               notas |-> body.Notas,
               metodo_pago |-> MetodoPago(issue)]
      t == IF L_venta \in labels /\ L_venta_mercado \notin labels /\ L_mercado \notin labels
           THEN Branch("venta", body, TRUE)
           ELSE IF L_produccion \in labels \/ L_produccion_acento \in labels
           THEN Branch("prod", body, FALSE)
           ELSE IF L_venta_mercado \in labels \/ (L_mercado \in labels /\ L_venta \in labels)
           THEN Branch("venta_mkt", body, TRUE)
           ELSE IF L_abasto_mercado \in labels \/ L_traspaso_mercado \in labels
           THEN Branch("abasto_mkt", body, FALSE)
           ELSE [type |-> <<"none">>, items |-> <<>>]
  IN [type |-> t.type, items |-> t.items, fecha |-> base.fecha,
      issue_url |-> base.issue_url, labels |-> base.labels, notas |-> base.notas,
      metodo_pago |-> base.metodo_pago]

\* ------------------------------------------------------------------------
\* Inventory
\* ------------------------------------------------------------------------

W_nan == <<"n", "a", "n">>

ConflictTokens == {<<"<", "<", "<", "<", "<", "<", "<">>, <<"=", "=", "=", "=", "=", "=", "=">>, <<">", ">", ">", ">", ">", ">", ">">>}

\* short_id_from_sku: the first eight hex digits of the SHA-1 of the SKU, kept
\* as the pair of the hash's name and its argument.
short_id_from_sku(sku) == <<"sha1", sku>>

\* The rows of s at the indices in idx, in order.
RECURSIVE RowsAt(_, _, _)
RowsAt(s, idx, i) ==
  IF i > Len(s) THEN <<>>
  ELSE (IF i \in idx THEN <<s[i]>> ELSE <<>>) \o RowsAt(s, idx, i + 1)

\* drop_duplicates(subset=key, keep="last"), key being a field name
DropDuplicatesLast(s, key) ==
  RowsAt(s, {i \in DOMAIN s : \A j \in DOMAIN s : j > i => s[j][key] # s[i][key]}, 1)

\* _load_inventory_file: rows are [item, descripcion, stock, precio,
\* product_id], precio a float.  An empty text cell is read as NaN and becomes
\* the text "nan" under astype(str).
_load_inventory_file(file) ==
  LET AsStr(t) == IF t = <<>> THEN W_nan ELSE t
      HasConflict(r) == \E tok \in ConflictTokens :
                          Contains(r.item, tok) \/ Contains(r.descripcion, tok)
      clean == RowsAt(file, {i \in DOMAIN file :
                               ~HasConflict(file[i]) /\ is_valid_sku(file[i].item)}, 1)
      dedup == DropDuplicatesLast(clean, "item")
  IN [i \in DOMAIN dedup |->
        [item |-> dedup[i].item,
         descripcion |-> AsStr(dedup[i].descripcion),
         stock |-> dedup[i].stock,
         precio |-> dedup[i].precio,
         product_id |-> AsStr(dedup[i].product_id)]]

\* _clean_items without the check of the product code.
RECURSIVE _clean_items_any_code(_, _)
_clean_items_any_code(items, require_price) ==
  IF items = <<>> THEN <<>>
  ELSE LET it == items[1]
           rest == _clean_items_any_code(Tail(items), require_price)
       IN IF it.cantidad <= 0 THEN rest
          ELSE IF require_price
          THEN <<[item |-> it.item, cantidad |-> it.cantidad,
                  precio_unit |-> IF "precio_unit" \in DOMAIN it
                                  THEN it.precio_unit ELSE <<>>]>> \o rest
          ELSE <<[item |-> it.item, cantidad |-> it.cantidad]>> \o rest

\* _clean_items
RECURSIVE _clean_items(_, _)
_clean_items(items, require_price) ==
  IF items = <<>> THEN <<>>
  ELSE LET it == items[1]
           rest == _clean_items(Tail(items), require_price)
       IN IF ~is_valid_sku(it.item) \/ it.cantidad <= 0 THEN rest
          ELSE IF require_price
          THEN <<[item |-> it.item, cantidad |-> it.cantidad,
                  precio_unit |-> IF "precio_unit" \in DOMAIN it
                                  THEN it.precio_unit ELSE <<>>]>> \o rest
          ELSE <<[item |-> it.item, cantidad |-> it.cantidad]>> \o rest

\* ApplyOne without the creation of a missing row: only rows that exist move.
ApplyOne_no_create(inv, it, sign) ==
  [i \in DOMAIN inv |->
     IF inv[i].item = it.item
     THEN [inv[i] EXCEPT !.stock = inv[i].stock + sign * it.cantidad]
     ELSE inv[i]]

\* ApplyOne with the stock floored at 0.
ApplyOne_clamped(inv, it, sign) ==
  LET delta == sign * it.cantidad
      present == \E i \in DOMAIN inv : inv[i].item = it.item
      inv2 == IF present THEN inv
              ELSE Append(inv, [item |-> it.item, descripcion |-> <<>>, stock |-> 0,
                                precio |-> NaN,
                                product_id |-> short_id_from_sku(it.item)])
  IN [i \in DOMAIN inv2 |->
        IF inv2[i].item = it.item
        THEN [inv2[i] EXCEPT !.stock = IF inv2[i].stock + delta < 0 THEN 0
                                       ELSE inv2[i].stock + delta]
        ELSE inv2[i]]

\* The body of the loop of apply_stock for one item: the row is created when
\* the SKU has none, then sign * cantidad is added to every row of the SKU.
ApplyOne(inv, it, sign) ==
  LET delta == sign * it.cantidad
      present == \E i \in DOMAIN inv : inv[i].item = it.item
      inv2 == IF present THEN inv
              ELSE Append(inv, [item |-> it.item, descripcion |-> <<>>, stock |-> 0,
                                precio |-> NaN,
                                product_id |-> short_id_from_sku(it.item)])
  IN [i \in DOMAIN inv2 |->
        IF inv2[i].item = it.item
        THEN [inv2[i] EXCEPT !.stock = inv2[i].stock + delta]
        ELSE inv2[i]]

\* apply_stock: the inventory it returns, which is also what it writes.
RECURSIVE ApplyAll(_, _, _)
ApplyAll(inv, items, sign) ==
  IF items = <<>> THEN inv
  ELSE ApplyAll(ApplyOne(inv, items[1], sign), Tail(items), sign)

apply_stock(inv, items, sign) == ApplyAll(inv, _clean_items(items, FALSE), sign)

\* ------------------------------------------------------------------------
\* Ledgers
\* ------------------------------------------------------------------------

\* ResolvePrice without the inventory's price: the cell when it is a number,
\* else 0.
ResolvePrice_no_default(inv, it) ==
  LET precio == ToNumeric(it.precio_unit)
  IN IF ~isna(precio) THEN precio.val ELSE 0

\* The price of one sale row: the cell when it is a number, else the price of
\* the first inventory row of the SKU when that is a number, else 0.
ResolvePrice(inv, it) ==
  LET precio == ToNumeric(it.precio_unit)
      row == RowsAt(inv, {i \in DOMAIN inv : inv[i].item = it.item}, 1)
  IN IF ~isna(precio) THEN precio.val
     ELSE IF row # <<>> /\ ~isna(row[1].precio) THEN row[1].precio.val
     ELSE 0

\* f"{issue_url}#{idx}", idx counted from 0
SourceId(issue_url, idx) == <<issue_url, idx>>

\* The rows append_sales_general and append_sales_mkt build from the cleaned
\* items.
SaleRows(inv, fecha, items, issue_url, metodo_pago, txn_id) ==
  [k \in DOMAIN items |->
     LET precio == ResolvePrice(inv, items[k])
     IN [txn_id |-> txn_id, fecha |-> fecha, item |-> items[k].item,
         cantidad |-> items[k].cantidad, precio_unit |-> precio,
         importe |-> items[k].cantidad * precio, issue |-> issue_url,
         metodo_pago |-> IF metodo_pago = <<>> THEN W_efectivo ELSE metodo_pago,
         source_id |-> SourceId(issue_url, k - 1)]]

\* _upsert_rows without the removal of the rows that share a key with the batch.
_upsert_rows_keep_old(file, rows, key) == file \o rows

\* _upsert_rows: the file it writes.
_upsert_rows(file, rows, key) ==
  LET keys == {rows[i][key] : i \in DOMAIN rows}
      kept == IF file # <<>>
              THEN RowsAt(file, {i \in DOMAIN file : file[i][key] \notin keys}, 1)
              ELSE file
  IN kept \o rows

\* append_sales_general / append_sales_mkt: the sales file afterwards (left as
\* it is when no item survives _clean_items).
append_sales(file, inv, fecha, items, issue_url, metodo_pago, txn_id) ==
  LET clean == _clean_items(items, TRUE)
  IN IF clean = <<>> THEN file
     ELSE _upsert_rows(file, SaleRows(inv, fecha, clean, issue_url, metodo_pago, txn_id),
                       "source_id")

\* The rows append_production and append_transfer_mkt concatenate.
MoveRows(fecha, items, issue_url, txn_id) ==
  [k \in DOMAIN items |->
     [txn_id |-> txn_id, fecha |-> fecha, item |-> items[k].item,
      cantidad |-> items[k].cantidad, issue |-> issue_url]]

\* append_production: the production file afterwards.
append_production(file, fecha, items, issue_url, txn_id) ==
  LET clean == _clean_items(items, FALSE)
  IN IF clean = <<>> THEN file ELSE file \o MoveRows(fecha, clean, issue_url, txn_id)

\* append_transfer_mkt: the transfer file afterwards.
append_transfer_mkt(file, fecha, items, issue_url, txn_id) ==
  LET clean == _clean_items(items, FALSE)
  IN IF clean = <<>> THEN file ELSE file \o MoveRows(fecha, clean, issue_url, txn_id)

\* new_txn_id: the prefix, the time of the run and a random token; the run's
\* number stands for the last two, which no two runs share.
new_txn_id(prefix, run) == <<prefix, run>>

\* ------------------------------------------------------------------------
\* Reports
\* ------------------------------------------------------------------------

LowStock == 5

RECURSIVE SumField(_, _)
SumField(s, f) == IF s = <<>> THEN 0 ELSE s[1][f] + SumField(Tail(s), f)

\* The characters of product codes and dates in the order of their code points.
CharOrder ==
  <<"-", "0", "1", "2", "3", "4", "5", "6", "7", "8", "9", ":",
    "A", "B", "C", "D", "E", "F", "G", "H", "I", "J", "K", "L", "M",
    "N", "O", "P", "Q", "R", "S", "T", "U", "V", "W", "X", "Y", "Z">>

CharCode(c) == CHOOSE i \in DOMAIN CharOrder : CharOrder[i] = c

\* a < b for two strings
RECURSIVE StrLess(_, _)
StrLess(a, b) ==
  IF b = <<>> THEN FALSE
  ELSE IF a = <<>> THEN TRUE
  ELSE IF a[1] = b[1] THEN StrLess(Tail(a), Tail(b))
  ELSE CharCode(a[1]) < CharCode(b[1])

\* groupby(key, as_index=False)[["cantidad","importe"]].sum(): one row per
\* value of the key, as a set.
GroupSum_first_row(rows, key) ==
  {[k |-> v,
    cantidad |-> rows[CHOOSE i \in DOMAIN rows : rows[i][key] = v].cantidad,
    importe |-> rows[CHOOSE i \in DOMAIN rows : rows[i][key] = v].importe] :
     v \in {rows[i][key] : i \in DOMAIN rows}}

GroupSum(rows, key) ==
  {[k |-> v,
    cantidad |-> SumField(RowsAt(rows, {i \in DOMAIN rows : rows[i][key] = v}, 1), "cantidad"),
    importe |-> SumField(RowsAt(rows, {i \in DOMAIN rows : rows[i][key] = v}, 1), "importe")] :
     v \in {rows[i][key] : i \in DOMAIN rows}}

\* ItemBefore with groups that tie on quantity and amount left in the
\* descending order of their key.
ItemBefore_ties_descending(a, b) ==
  \/ a.cantidad > b.cantidad
  \/ (a.cantidad = b.cantidad /\ a.importe > b.importe)
  \/ (a.cantidad = b.cantidad /\ a.importe = b.importe /\ StrLess(b.k, a.k))

\* The order of ventas_por_item.csv: sort_values(["cantidad","importe"],
\* ascending=False), a stable sort of groups that groupby left in the order
\* of their key.
ItemBefore(a, b) ==
  \/ a.cantidad > b.cantidad
  \/ (a.cantidad = b.cantidad /\ a.importe > b.importe)
  \/ (a.cantidad = b.cantidad /\ a.importe = b.importe /\ StrLess(a.k, b.k))

\* by_item of build_reports: rows [item, cantidad, importe].
by_item(sales) ==
  LET g == GroupSum(sales, "item")
      at(n) == CHOOSE r \in g : Cardinality({q \in g : ItemBefore(q, r)}) = n - 1
  IN [n \in 1..Cardinality(g) |->
        [item |-> at(n).k, cantidad |-> at(n).cantidad, importe |-> at(n).importe]]

\* by_day of build_reports: rows [fecha, cantidad, importe], sort_values("fecha").
by_day(sales) ==
  LET g == GroupSum(sales, "fecha")
      at(n) == CHOOSE r \in g : Cardinality({q \in g : StrLess(q.k, r.k)}) = n - 1
  IN [n \in 1..Cardinality(g) |->
        [fecha |-> at(n).k, cantidad |-> at(n).cantidad, importe |-> at(n).importe]]

\* ReadSales without the removal of duplicates.
ReadSales_no_dedupe(file) == file

\* The sales build_reports reads: the file, one row per source_id.
ReadSales(file) == DropDuplicatesLast(file, "source_id")

\* _safe_merge(sales, inv_key, on="item"): each sale row with the product_id
\* and the description of the inventory row of its item (empty cells when the
\* inventory has none).  The inventory holds one row per item.
_safe_merge(rows, inv) ==
  [i \in DOMAIN rows |->
     LET hit == RowsAt(inv, {j \in DOMAIN inv : inv[j].item = rows[i].item}, 1)
     IN [f \in (DOMAIN rows[i]) \cup {"product_id", "descripcion"} |->
           IF f = "product_id" THEN (IF hit = <<>> THEN <<>> ELSE hit[1].product_id)
           ELSE IF f = "descripcion" THEN (IF hit = <<>> THEN <<>> ELSE hit[1].descripcion)
           ELSE rows[i][f]]]

\* inv[inv["item"].apply(is_valid_sku)] at the head of build_reports.
ValidInventory(inv) == RowsAt(inv, {i \in DOMAIN inv : is_valid_sku(inv[i].item)}, 1)

\* The sales detail build_reports writes for a scope.
sales_detail(file, inv) == _safe_merge(ReadSales(file), ValidInventory(inv))

\* The directory of per-day extracts after the loop over groupby("fecha"): the
\* file of every date of the detail is written with the rows of that date;
\* every other file of the directory stays as it is.  A directory is a
\* function from dates to files.
WriteDiarios(dir, detail) ==
  LET sd == DropDuplicatesLast(detail, "source_id")
      fechas == {sd[i].fecha : i \in DOMAIN sd}
  IN [f \in (DOMAIN dir) \cup fechas |->
        IF f \in fechas THEN RowsAt(sd, {i \in DOMAIN sd : sd[i].fecha = f}, 1)
        ELSE dir[f]]

\* The summary build_reports writes to report.json.
Summary(inv_gen, sales_file, prod_file) ==
  LET inv == RowsAt(inv_gen, {i \in DOMAIN inv_gen : is_valid_sku(inv_gen[i].item)}, 1)
      sales == ReadSales(sales_file)
  IN [items_distintos |-> Cardinality({inv[i].item : i \in DOMAIN inv}),
      items_low_stock |-> Cardinality({i \in DOMAIN inv : inv[i].stock <= LowStock}),
      total_ventas |-> SumField(sales, "cantidad"),
      total_importe |-> SumField(sales, "importe"),
      total_producido |-> SumField(prod_file, "cantidad")]

\* ------------------------------------------------------------------------
\* State
\* ------------------------------------------------------------------------

VARIABLES
  INVENTORY_CSV,      \* data/inventory.csv
  INVENTORY_MKT_CSV,  \* data/inventory_mercado.csv
  SALES_CSV,          \* data/sales.csv
  SALES_MKT_CSV,      \* data/sales_mercado.csv
  PROD_CSV,           \* data/production.csv
  TRANSFER_MKT_CSV,   \* data/transfer_mercado.csv
  REPORT_JSON,        \* docs/report.json: the summary, and the run that wrote it
  SALES_ITEM_CSV,     \* docs/ventas_por_item.csv
  SALES_DAY_CSV,      \* docs/ventas_por_dia.csv
  SALES_DETAIL_CSV,   \* docs/ventas_detalle.csv
  DIARIO_DIR,         \* docs/diario: the file <fecha>-ventas.csv of each fecha
  SALES_MKT_DETAIL_CSV, \* docs/mercado/ventas_detalle.csv
  SALES_MKT_DAY_CSV,  \* docs/mercado/ventas_por_dia.csv
  MKT_DIARIO_DIR,     \* docs/mercado/diario: the file <fecha>-ventas.csv of each fecha
  pc,                 \* 0 between runs, else the next step of main's plan
  inv_gen,            \* main's inv_gen
  inv_mkt,            \* main's inv_mkt
  data,               \* main's data
  other,              \* a second invocation of main: its pc, inv_gen, inv_mkt, data
                      \* and the number of its run
  log,                \* history: the runs begun, each with its issue, what
                      \* parse_issue made of it, and its outcome
  snap,               \* history: the data files when each run began
  published,          \* history: the report files when each run began
  writes              \* history: the files the current (or last) run wrote, in order

files == <<INVENTORY_CSV, INVENTORY_MKT_CSV, SALES_CSV, SALES_MKT_CSV, PROD_CSV,
           TRANSFER_MKT_CSV>>

reports == <<REPORT_JSON, SALES_ITEM_CSV, SALES_DAY_CSV, SALES_DETAIL_CSV, DIARIO_DIR,
             SALES_MKT_DETAIL_CSV, SALES_MKT_DAY_CSV, MKT_DIARIO_DIR>>

vars == <<INVENTORY_CSV, INVENTORY_MKT_CSV, SALES_CSV, SALES_MKT_CSV, PROD_CSV,
          TRANSFER_MKT_CSV, REPORT_JSON, SALES_ITEM_CSV, SALES_DAY_CSV,
          SALES_DETAIL_CSV, DIARIO_DIR, SALES_MKT_DETAIL_CSV, SALES_MKT_DAY_CSV,
          MKT_DIARIO_DIR, pc, inv_gen, inv_mkt, data, other, log, snap, published,
          writes>>

\* The data files as one record.
Stores ==
  [inventory |-> INVENTORY_CSV, inventory_mkt |-> INVENTORY_MKT_CSV,
   sales |-> SALES_CSV, sales_mkt |-> SALES_MKT_CSV, prod |-> PROD_CSV,
   transfer |-> TRANSFER_MKT_CSV]

\* The report files as one record.
Reports ==
  [report |-> REPORT_JSON.summary, by_item |-> SALES_ITEM_CSV,
   by_day |-> SALES_DAY_CSV, detail |-> SALES_DETAIL_CSV, diario |-> DIARIO_DIR,
   detail_mkt |-> SALES_MKT_DETAIL_CSV, by_day_mkt |-> SALES_MKT_DAY_CSV,
   diario_mkt |-> MKT_DIARIO_DIR]

NoData == [type |-> <<"none">>, items |-> <<>>, fecha |-> <<>>, issue_url |-> "",
           labels |-> {}, notas |-> <<>>, metodo_pago |-> <<>>]

\* No second invocation is running.  overlapped is history: whether another
\* invocation began while a second one ran.
Idle == [pc |-> 0, inv_gen |-> <<>>, inv_mkt |-> <<>>, data |-> NoData, run |-> 0,
         overlapped |-> FALSE]

\* ------------------------------------------------------------------------
\* main
\* ------------------------------------------------------------------------

\* t.startswith(prefix) for the types parse_issue returns.
TypeStartsWith(t, prefix) ==
  t[1] = prefix \/ (prefix = "venta" /\ t[1] = "venta_mkt")

\* Plan with the stock of a general sale applied before its ledger write.
Plan_stock_first(t) ==
  IF TypeStartsWith(t, "venta_mkt")
  THEN <<"append_sales_mkt", "apply_stock_mkt", "build_reports">>
  ELSE IF TypeStartsWith(t, "abasto_mkt")
  THEN <<"apply_stock_gen", "apply_stock_mkt", "append_transfer_mkt", "build_reports">>
  ELSE IF TypeStartsWith(t, "venta")
  THEN <<"apply_stock_gen", "append_sales_general", "build_reports">>
  ELSE IF TypeStartsWith(t, "prod")
  THEN <<"append_production", "apply_stock_gen", "build_reports">>
  ELSE <<"build_reports">>

\* Plan with the stock of a general sale also taken from the market.
Plan_sale_hits_market(t) ==
  IF TypeStartsWith(t, "venta_mkt")
  THEN <<"append_sales_mkt", "apply_stock_mkt", "build_reports">>
  ELSE IF TypeStartsWith(t, "abasto_mkt")
  THEN <<"apply_stock_gen", "apply_stock_mkt", "append_transfer_mkt", "build_reports">>
  ELSE IF TypeStartsWith(t, "venta")
  THEN <<"append_sales_general", "apply_stock_gen", "apply_stock_mkt", "build_reports">>
  ELSE IF TypeStartsWith(t, "prod")
  THEN <<"append_production", "apply_stock_gen", "build_reports">>
  ELSE <<"build_reports">>

\* The calls main makes for a type, in order.
Plan(t) ==
  IF TypeStartsWith(t, "venta_mkt")
  THEN <<"append_sales_mkt", "apply_stock_mkt", "build_reports">>
  ELSE IF TypeStartsWith(t, "abasto_mkt")
  THEN <<"apply_stock_gen", "apply_stock_mkt", "append_transfer_mkt", "build_reports">>
  ELSE IF TypeStartsWith(t, "venta")
  THEN <<"append_sales_general", "apply_stock_gen", "build_reports">>
  ELSE IF TypeStartsWith(t, "prod")
  THEN <<"append_production", "apply_stock_gen", "build_reports">>
  ELSE <<"build_reports">>

\* SignGen with a production taken out of the general stock.
SignGen_always_out(t) == 0 - 1

\* The sign main passes to apply_stock for the general inventory.
SignGen(t) == IF TypeStartsWith(t, "prod") THEN 1 ELSE 0 - 1

\* SignMkt with a transfer taken out of the market stock.
SignMkt_always_out(t) == 0 - 1

\* The sign main passes to apply_stock for the market inventory.
SignMkt(t) == IF TypeStartsWith(t, "abasto_mkt") THEN 1 ELSE 0 - 1

\* The prefix main passes to new_txn_id.
TxnPrefix(t) ==
  IF TypeStartsWith(t, "venta_mkt") THEN "SM"
  ELSE IF TypeStartsWith(t, "abasto_mkt") THEN "TM"
  ELSE IF TypeStartsWith(t, "venta") THEN "S"
  ELSE "P"

txn == new_txn_id(TxnPrefix(data.type), Len(log))

At(step) == pc > 0 /\ pc <= Len(Plan(data.type)) /\ Plan(data.type)[pc] = step

\* ensure_files has run: every data file exists with its header.  The general
\* inventory holds one product; the market inventory is empty.
SKU_A == <<"S", "K", "U", "-", "A">>
SKU_B == <<"S", "K", "U", "-", "B">>

InitialInventory ==
  <<[item |-> SKU_A, descripcion |-> <<"P", "a", "l", "e", "t", "a">>, stock |-> 10, precio |-> Num(1200),
     product_id |-> short_id_from_sku(SKU_A)]>>

\* The state before the first run, with the inventory files and the sale
\* ledgers given; no report has been published.
InitFiles(inventory, inventory_mkt, sales, sales_mkt) ==
  /\ INVENTORY_CSV = inventory
  /\ INVENTORY_MKT_CSV = inventory_mkt
  /\ SALES_CSV = sales
  /\ SALES_MKT_CSV = sales_mkt
  /\ PROD_CSV = <<>>
  /\ TRANSFER_MKT_CSV = <<>>
  /\ REPORT_JSON = [summary |-> Summary(<<>>, <<>>, <<>>), run |-> 0]
  /\ SALES_ITEM_CSV = <<>>
  /\ SALES_DAY_CSV = <<>>
  /\ SALES_DETAIL_CSV = <<>>
  /\ DIARIO_DIR = <<>>
  /\ SALES_MKT_DETAIL_CSV = <<>>
  /\ SALES_MKT_DAY_CSV = <<>>
  /\ MKT_DIARIO_DIR = <<>>
  /\ pc = 0
  /\ inv_gen = <<>>
  /\ inv_mkt = <<>>
  /\ data = NoData
  /\ other = Idle
  /\ log = <<>>
  /\ snap = <<>>
  /\ published = <<>>
  /\ writes = <<>>

\* The state before the first run, with the two inventory files given and
\* the ledgers as ensure_files creates them.
InitWith(inventory, inventory_mkt) == InitFiles(inventory, inventory_mkt, <<>>, <<>>)

Init == InitWith(InitialInventory, <<>>)

\* main up to the dispatch on the type: the inventories are loaded and the
\* issue is parsed.
Begin(issue) ==
  /\ pc = 0
  /\ inv_gen' = _load_inventory_file(INVENTORY_CSV)
  /\ inv_mkt' = _load_inventory_file(INVENTORY_MKT_CSV)
  /\ data' = parse_issue(issue)
  /\ pc' = 1
  /\ log' = Append(log, [issue |-> issue, data |-> data', outcome |-> "running",
                          steps |-> 0])
  /\ snap' = Append(snap, Stores)
  /\ published' = Append(published, Reports)
  /\ writes' = <<>>
  /\ UNCHANGED <<files, reports, other>>

AppendSalesMkt ==
  /\ At("append_sales_mkt")
  /\ SALES_MKT_CSV' = append_sales(SALES_MKT_CSV, inv_mkt, data.fecha, data.items,
                                   data.issue_url, data.metodo_pago, txn)
  /\ writes' = IF _clean_items(data.items, TRUE) = <<>> THEN writes
               ELSE Append(writes, "SALES_MKT_CSV")
  /\ pc' = pc + 1
  /\ UNCHANGED <<INVENTORY_CSV, INVENTORY_MKT_CSV, SALES_CSV, PROD_CSV,
                 TRANSFER_MKT_CSV, reports, inv_gen, inv_mkt, data, other, log, snap, published>>

AppendSalesGeneral ==
  /\ At("append_sales_general")
  /\ SALES_CSV' = append_sales(SALES_CSV, inv_gen, data.fecha, data.items,
                               data.issue_url, data.metodo_pago, txn)
  /\ writes' = IF _clean_items(data.items, TRUE) = <<>> THEN writes
               ELSE Append(writes, "SALES_CSV")
  /\ pc' = pc + 1
  /\ UNCHANGED <<INVENTORY_CSV, INVENTORY_MKT_CSV, SALES_MKT_CSV, PROD_CSV,
                 TRANSFER_MKT_CSV, reports, inv_gen, inv_mkt, data, other, log, snap, published>>

AppendProduction ==
  /\ At("append_production")
  /\ PROD_CSV' = append_production(PROD_CSV, data.fecha, data.items, data.issue_url, txn)
  /\ writes' = IF _clean_items(data.items, FALSE) = <<>> THEN writes
               ELSE Append(writes, "PROD_CSV")
  /\ pc' = pc + 1
  /\ UNCHANGED <<INVENTORY_CSV, INVENTORY_MKT_CSV, SALES_CSV, SALES_MKT_CSV,
                 TRANSFER_MKT_CSV, reports, inv_gen, inv_mkt, data, other, log, snap, published>>

AppendTransferMkt ==
  /\ At("append_transfer_mkt")
  /\ TRANSFER_MKT_CSV' = append_transfer_mkt(TRANSFER_MKT_CSV, data.fecha, data.items,
                                             data.issue_url, txn)
  /\ writes' = IF _clean_items(data.items, FALSE) = <<>> THEN writes
               ELSE Append(writes, "TRANSFER_MKT_CSV")
  /\ pc' = pc + 1
  /\ UNCHANGED <<INVENTORY_CSV, INVENTORY_MKT_CSV, SALES_CSV, SALES_MKT_CSV,
                 PROD_CSV, reports, inv_gen, inv_mkt, data, other, log, snap, published>>

\* inv_gen = apply_stock(inv_gen, ..., path=INVENTORY_CSV)
ApplyStockGen ==
  /\ At("apply_stock_gen")
  /\ inv_gen' = apply_stock(inv_gen, data.items, SignGen(data.type))
  /\ INVENTORY_CSV' = inv_gen'
  /\ writes' = Append(writes, "INVENTORY_CSV")
  /\ pc' = pc + 1
  /\ UNCHANGED <<INVENTORY_MKT_CSV, SALES_CSV, SALES_MKT_CSV, PROD_CSV,
                 TRANSFER_MKT_CSV, reports, inv_mkt, data, other, log, snap, published>>

\* inv_mkt = apply_stock(inv_mkt, ..., path=INVENTORY_MKT_CSV)
ApplyStockMkt ==
  /\ At("apply_stock_mkt")
  /\ inv_mkt' = apply_stock(inv_mkt, data.items, SignMkt(data.type))
  /\ INVENTORY_MKT_CSV' = inv_mkt'
  /\ writes' = Append(writes, "INVENTORY_MKT_CSV")
  /\ pc' = pc + 1
  /\ UNCHANGED <<INVENTORY_CSV, SALES_CSV, SALES_MKT_CSV, PROD_CSV,
                 TRANSFER_MKT_CSV, reports, inv_gen, data, other, log, snap, published>>

\* The files build_reports(ig, im) writes, in the order it writes them, each
\* with what it writes: the general detail, the two rollups, report.json
\* (stamped with the run), the per-day extracts when there is a sale, then
\* the market detail and, when there is a market sale, its per-day rollup and
\* extracts.
Rebuilt(ig, im, run) ==
  LET sales == ReadSales(SALES_CSV)
      sales_mkt == ReadSales(SALES_MKT_CSV)
      detail == sales_detail(SALES_CSV, ig)
      detail_mkt == sales_detail(SALES_MKT_CSV, im)
  IN <<[file |-> "SALES_DETAIL_CSV", to |-> detail],
       [file |-> "SALES_ITEM_CSV", to |-> by_item(sales)],
       [file |-> "SALES_DAY_CSV", to |-> by_day(sales)],
       [file |-> "REPORT_JSON",
        to |-> [summary |-> Summary(ig, SALES_CSV, PROD_CSV), run |-> run]]>>
     \o (IF detail = <<>> THEN <<>>
         ELSE <<[file |-> "DIARIO_DIR", to |-> WriteDiarios(DIARIO_DIR, detail)]>>)
     \o <<[file |-> "SALES_MKT_DETAIL_CSV", to |-> detail_mkt]>>
     \o (IF sales_mkt = <<>> THEN <<>>
         ELSE <<[file |-> "SALES_MKT_DAY_CSV", to |-> by_day(sales_mkt)]>>)
     \o (IF detail_mkt = <<>> THEN <<>>
         ELSE <<[file |-> "MKT_DIARIO_DIR", to |-> WriteDiarios(MKT_DIARIO_DIR, detail_mkt)]>>)

\* A file after the writes w: what the write to it left, or what it held.
Written(w, name, held) ==
  IF \E i \in DOMAIN w : w[i].file = name
  THEN w[CHOOSE i \in DOMAIN w : w[i].file = name].to
  ELSE held

\* The report files after the writes w.
WriteReports(w) ==
  /\ SALES_DETAIL_CSV' = Written(w, "SALES_DETAIL_CSV", SALES_DETAIL_CSV)
  /\ SALES_ITEM_CSV' = Written(w, "SALES_ITEM_CSV", SALES_ITEM_CSV)
  /\ SALES_DAY_CSV' = Written(w, "SALES_DAY_CSV", SALES_DAY_CSV)
  /\ REPORT_JSON' = Written(w, "REPORT_JSON", REPORT_JSON)
  /\ DIARIO_DIR' = Written(w, "DIARIO_DIR", DIARIO_DIR)
  /\ SALES_MKT_DETAIL_CSV' = Written(w, "SALES_MKT_DETAIL_CSV", SALES_MKT_DETAIL_CSV)
  /\ SALES_MKT_DAY_CSV' = Written(w, "SALES_MKT_DAY_CSV", SALES_MKT_DAY_CSV)
  /\ MKT_DIARIO_DIR' = Written(w, "MKT_DIARIO_DIR", MKT_DIARIO_DIR)

\* The names of the files of the writes w.
FilesOf(w) == [i \in DOMAIN w |-> w[i].file]

\* build_reports(inv_gen, inv_mkt), after which main returns.
BuildReports ==
  /\ At("build_reports")
  /\ WriteReports(Rebuilt(inv_gen, inv_mkt, Len(log)))
  /\ writes' = writes \o FilesOf(Rebuilt(inv_gen, inv_mkt, Len(log)))
  /\ pc' = 0
  /\ inv_gen' = <<>>
  /\ inv_mkt' = <<>>
  /\ data' = NoData
  /\ log' = [log EXCEPT ![Len(log)] = [@ EXCEPT !.outcome = "ok", !.steps = pc]]
  /\ UNCHANGED <<files, other, snap, published>>

\* build_reports when one of its writes raises: the k files before it have
\* been written, the others are as they were, and the run ends there.
BuildReportsFails(k) ==
  /\ At("build_reports")
  /\ k < Len(Rebuilt(inv_gen, inv_mkt, Len(log)))
  /\ WriteReports(SubSeq(Rebuilt(inv_gen, inv_mkt, Len(log)), 1, k))
  /\ writes' = writes \o FilesOf(SubSeq(Rebuilt(inv_gen, inv_mkt, Len(log)), 1, k))
  /\ pc' = 0
  /\ inv_gen' = <<>>
  /\ inv_mkt' = <<>>
  /\ data' = NoData
  /\ log' = [log EXCEPT ![Len(log)] = [@ EXCEPT !.outcome = "failed", !.steps = pc - 1]]
  /\ UNCHANGED <<files, other, snap, published>>

\* The process dies between two calls of main: what it held in memory is lost,
\* the files stay as they are.
Crash ==
  /\ pc > 0
  /\ pc' = 0
  /\ inv_gen' = <<>>
  /\ inv_mkt' = <<>>
  /\ data' = NoData
  /\ log' = [log EXCEPT ![Len(log)] = [@ EXCEPT !.outcome = "crash", !.steps = pc - 1]]
  /\ UNCHANGED <<files, reports, other, snap, published, writes>>

\* A second invocation of main starts while the first is between runs: main
\* up to the dispatch on the type, on its own inv_gen, inv_mkt and data.
BeginOther(issue) ==
  /\ pc = 0
  /\ other.pc = 0
  /\ other' = [pc |-> 1,
               inv_gen |-> _load_inventory_file(INVENTORY_CSV),
               inv_mkt |-> _load_inventory_file(INVENTORY_MKT_CSV),
               data |-> parse_issue(issue),
               run |-> Len(log) + 1,
               overlapped |-> other.overlapped]
  /\ log' = Append(log, [issue |-> issue, data |-> parse_issue(issue),
                          outcome |-> "running", steps |-> 0])
  /\ snap' = Append(snap, Stores)
  /\ published' = Append(published, Reports)
  /\ UNCHANGED <<files, reports, pc, inv_gen, inv_mkt, data, writes>>

\* The next call of the second invocation, on the files as they are now and
\* on the inventories it holds in memory; after build_reports it returns.
StepOther ==
  /\ other.pc > 0
  /\ LET d == other.data
         step == Plan(d.type)[other.pc]
         id == new_txn_id(TxnPrefix(d.type), other.run)
         ig == IF step = "apply_stock_gen"
               THEN apply_stock(other.inv_gen, d.items, SignGen(d.type))
               ELSE other.inv_gen
         im == IF step = "apply_stock_mkt"
               THEN apply_stock(other.inv_mkt, d.items, SignMkt(d.type))
               ELSE other.inv_mkt
         met == other.overlapped \/ Len(log) > other.run
     IN /\ SALES_CSV' = IF step = "append_sales_general"
                        THEN append_sales(SALES_CSV, other.inv_gen, d.fecha, d.items,
                                          d.issue_url, d.metodo_pago, id)
                        ELSE SALES_CSV
        /\ SALES_MKT_CSV' = IF step = "append_sales_mkt"
                            THEN append_sales(SALES_MKT_CSV, other.inv_mkt, d.fecha, d.items,
                                              d.issue_url, d.metodo_pago, id)
                            ELSE SALES_MKT_CSV
        /\ PROD_CSV' = IF step = "append_production"
                       THEN append_production(PROD_CSV, d.fecha, d.items, d.issue_url, id)
                       ELSE PROD_CSV
        /\ TRANSFER_MKT_CSV' = IF step = "append_transfer_mkt"
                               THEN append_transfer_mkt(TRANSFER_MKT_CSV, d.fecha, d.items,
                                                        d.issue_url, id)
                               ELSE TRANSFER_MKT_CSV
        /\ INVENTORY_CSV' = IF step = "apply_stock_gen" THEN ig ELSE INVENTORY_CSV
        /\ INVENTORY_MKT_CSV' = IF step = "apply_stock_mkt" THEN im ELSE INVENTORY_MKT_CSV
        /\ WriteReports(IF step = "build_reports"
                        THEN Rebuilt(other.inv_gen, other.inv_mkt, other.run)
                        ELSE <<>>)
        /\ other' = IF step = "build_reports"
                    THEN [Idle EXCEPT !.overlapped = met]
                    ELSE [other EXCEPT !.pc = @ + 1, !.inv_gen = ig, !.inv_mkt = im,
                                       !.overlapped = met]
        /\ log' = IF step = "build_reports"
                  THEN [log EXCEPT ![other.run] =
                          [@ EXCEPT !.outcome = "ok", !.steps = other.pc]]
                  ELSE log
  /\ UNCHANGED <<pc, inv_gen, inv_mkt, data, snap, published, writes>>

Step ==
  \/ AppendSalesMkt
  \/ AppendSalesGeneral
  \/ AppendProduction
  \/ AppendTransferMkt
  \/ ApplyStockGen
  \/ ApplyStockMkt
  \/ BuildReports

\* main as one function of the data files: the files after an uninterrupted
\* run on the issue (run being the number of the run).
main(st, issue, run) ==
  LET d == parse_issue(issue)
      t == d.type
      ig == _load_inventory_file(st.inventory)
      im == _load_inventory_file(st.inventory_mkt)
      id == new_txn_id(TxnPrefix(t), run)
  IN IF TypeStartsWith(t, "venta_mkt")
     THEN [st EXCEPT !.sales_mkt = append_sales(st.sales_mkt, im, d.fecha, d.items,
                                                d.issue_url, d.metodo_pago, id),
                     !.inventory_mkt = apply_stock(im, d.items, SignMkt(t))]
     ELSE IF TypeStartsWith(t, "abasto_mkt")
     THEN [st EXCEPT !.inventory = apply_stock(ig, d.items, SignGen(t)),
                     !.inventory_mkt = apply_stock(im, d.items, SignMkt(t)),
                     !.transfer = append_transfer_mkt(st.transfer, d.fecha, d.items,
                                                      d.issue_url, id)]
     ELSE IF TypeStartsWith(t, "venta")
     THEN [st EXCEPT !.sales = append_sales(st.sales, ig, d.fecha, d.items,
                                            d.issue_url, d.metodo_pago, id),
                     !.inventory = apply_stock(ig, d.items, SignGen(t))]
     ELSE IF TypeStartsWith(t, "prod")
     THEN [st EXCEPT !.prod = append_production(st.prod, d.fecha, d.items,
                                                d.issue_url, id),
                     !.inventory = apply_stock(ig, d.items, SignGen(t))]
     ELSE st

\* ------------------------------------------------------------------------
\* Issues
\* ------------------------------------------------------------------------

Cell_3 == <<"3">>
Cell_5 == <<"5">>
Cell_10_00 == <<"1", "0", ".", "0", "0">>

\* The Items sections of the issues: rows SKU | quantity | price.
Sections ==
  { << <<SKU_A, Cell_3, Cell_10_00>> >>,
    << <<SKU_A, Cell_5, Cell_10_00>> >>,
    << <<SKU_A, Cell_3, Cell_10_00>>, <<SKU_B, Cell_3, Cell_10_00>> >>,
    << <<SKU_A, Cell_3, Cell_10_00>>, <<SKU_B, Cell_5, Cell_10_00>> >> }

Origins == {"issues/1", "issues/2"}

LabelSets == {{L_venta}, {L_venta_mercado}, {L_produccion}, {L_abasto_mercado}}

MkIssue(url, labels, section) ==
  [html_url |-> url, title |-> <<>>, created_at |-> <<"2", "0", "2", "5", "-", "1", "0", "-", "1", "4", "T", "0", "8", ":", "0", "0", ":", "0", "0", "Z">>,
   labels |-> labels,
   body |-> [Fecha |-> <<"2", "0", "2", "5", "-", "1", "0", "-", "1", "5">>, Notas |-> <<>>, Metodo |-> <<>>, Item |-> <<>>,
             Cantidad |-> <<>>, Precio |-> <<>>, section |-> section]]

Issues == {MkIssue(u, l, s) : u \in Origins, l \in LabelSets, s \in Sections}

\* ------------------------------------------------------------------------
\* Specifications
\* ------------------------------------------------------------------------

\* Serialized runs, each to completion.
Next ==
  \/ \E issue \in Issues : Len(log) < MaxRuns /\ Begin(issue)
  \/ Step

Spec == Init /\ [][Next]_vars

\* Serialized runs, any of which may die between two calls.
NextCrash ==
  \/ \E issue \in Issues : Len(log) < MaxRuns /\ Begin(issue)
  \/ Step
  \/ Crash

SpecCrash == Init /\ [][NextCrash]_vars

\* One run on an issue whose labels are any set of the tags the code looks
\* for (one written with capitals).
Tags == {L_venta, L_venta_mercado, L_mercado, L_produccion, L_produccion_acento,
         L_abasto_mercado, L_traspaso_mercado, <<"V", "e", "n", "t", "a", "-", "M", "e", "r", "c", "a", "d", "o">>}

TaggedIssues ==
  {MkIssue("issues/1", l, << <<SKU_A, Cell_3, Cell_10_00>> >>) : l \in SUBSET Tags}

NextClassify ==
  \/ \E issue \in TaggedIssues : log = <<>> /\ Begin(issue)
  \/ Step

SpecClassify == Init /\ [][NextClassify]_vars

\* An issue with every field given.
MkEvent(url, title, created_at, labels, fecha, metodo, item, cantidad, precio, section) ==
  [html_url |-> url, title |-> title, created_at |-> created_at, labels |-> labels,
   body |-> [Fecha |-> fecha, Notas |-> <<>>, Metodo |-> metodo, Item |-> item,
             Cantidad |-> cantidad, Precio |-> precio, section |-> section]]

CreatedAt == <<"2", "0", "2", "5", "-", "1", "0", "-", "1", "4", "T", "0", "8", ":", "0", "0", ":", "0", "0", "Z">>

Cell_2_50 == <<"2", ".", "5", "0">>

\* Sales of the two scopes on two days, with the items of four tables, two of
\* which sell different products in the same quantity for the same amount.
SaleIssues ==
  {MkEvent(u, <<>>, CreatedAt, l, f, <<>>, <<>>, <<>>, <<>>, s) :
     u \in Origins,
     l \in {{L_venta}, {L_venta_mercado}},
     f \in {<<"2", "0", "2", "5", "-", "1", "0", "-", "1", "5">>,
            <<"1", "6", "/", "1", "0", "/", "2", "0", "2", "5">>},
     s \in { << <<SKU_A, Cell_3, Cell_10_00>> >>,
             << <<SKU_B, Cell_5, Cell_2_50>> >>,
             << <<SKU_B, Cell_3, Cell_10_00>> >>,
             << <<SKU_A, Cell_5, Cell_10_00>>, <<SKU_B, Cell_3, Cell_2_50>> >> }}

\* Those sales, a production and a transfer.
ReportIssues ==
  SaleIssues \cup
  {MkIssue("issues/1", l, << <<SKU_A, Cell_3, Cell_10_00>> >>) :
     l \in {{L_produccion}, {L_abasto_mercado}}}

NextReports ==
  \/ \E issue \in ReportIssues : Len(log) < MaxRuns /\ Begin(issue)
  \/ Step

SpecReports == Init /\ [][NextReports]_vars

SKU_C == <<"S", "K", "U", "-", "C">>

\* Inventories with a product that has a price, one that has none, and a
\* price that differs between the scopes.
PricedInventory ==
  <<[item |-> SKU_A, descripcion |-> <<"P", "a", "l", "e", "t", "a">>, stock |-> 10, precio |-> Num(1200),
     product_id |-> short_id_from_sku(SKU_A)],
    [item |-> SKU_C, descripcion |-> <<"C", "o", "n", "o">>, stock |-> 4, precio |-> NaN,
     product_id |-> short_id_from_sku(SKU_C)]>>

PricedInventoryMkt ==
  <<[item |-> SKU_A, descripcion |-> <<"P", "a", "l", "e", "t", "a">>, stock |-> 2, precio |-> Num(1500),
     product_id |-> short_id_from_sku(SKU_A)]>>

InitParse == InitWith(PricedInventory, PricedInventoryMkt)

Cell_abc == <<"a", "b", "c">>
Cell_0 == <<"0">>
Cell_minus_2 == <<"-", "2">>
Cell_2 == <<"2">>
Cell_x == <<"x">>
Cell_sku_lower == <<"s", "k", "u", "-", "c">>
Cell_AB == <<"A", "B">>
Cell_bold == <<"*", "*", "C", "a", "n", "t", "i", "d", "a", "d", "*", "*", ":">>
Row_header == <<<<"S", "K", "U">>, <<"C", "a", "n", "t", "i", "d", "a", "d">>, <<"P", "r", "e", "c", "i", "o">>>>
Row_dashes == <<<<"-", "-", "-">>, <<"-", "-", "-">>, <<"-", "-", "-">>>>

\* Items tables with rows that parse_items_table rejects among rows it
\* accepts, a table whose every row is rejected, and a table whose price
\* cells are a number, empty, or no number.
RowSections ==
  { << <<SKU_C, Cell_abc, Cell_10_00>>, <<SKU_A, Cell_3, Cell_10_00>> >>,
    << <<SKU_A, Cell_3, Cell_10_00>>, <<SKU_B, Cell_0, Cell_10_00>> >>,
    << <<SKU_B, Cell_minus_2, Cell_10_00>>, <<SKU_A, Cell_5, Cell_10_00>>,
       <<SKU_B, Cell_3, Cell_2_50>> >>,
    << <<Cell_sku_lower, Cell_3, Cell_10_00>>, <<SKU_A, Cell_3, Cell_10_00>>,
       <<Cell_AB, Cell_3, Cell_10_00>>, <<SKU_C, Cell_2, Cell_2_50>> >>,
    << Row_header, Row_dashes, <<Cell_bold, Cell_3, Cell_10_00>>,
       <<SKU_B, Cell_3, Cell_10_00>> >>,
    << <<SKU_C, Cell_abc, Cell_10_00>>, <<Cell_AB, Cell_3, Cell_10_00>> >>,
    << <<SKU_A, Cell_3, <<>>>>, <<SKU_C, Cell_3, Cell_abc>>, <<SKU_B, Cell_3, <<>>>>,
       <<SKU_A, Cell_5, Cell_2_50>> >>,
    << >> }

\* A line of the section that is empty, and one that is text without "|".
Line_blank == << <<>> >>
Line_text == << <<"G", "r", "a", "c", "i", "a", "s">> >>

\* Items tables with a row of two cells, with an empty line or a line of
\* text between two rows, and with such a line before the first row.
LineSections ==
  { << <<SKU_A, Cell_3>>, <<SKU_B, Cell_3, Cell_10_00>> >>,
    << <<SKU_A, Cell_3>> >>,
    << <<SKU_A, Cell_3, Cell_10_00>>, Line_blank, <<SKU_B, Cell_3, Cell_10_00>> >>,
    << <<SKU_A, Cell_3, Cell_10_00>>, Line_text, <<SKU_B, Cell_3, Cell_10_00>> >>,
    << Line_blank, <<SKU_A, Cell_3, Cell_10_00>> >>,
    << Line_text, <<SKU_A, Cell_3, Cell_10_00>> >> }

Title_tarjeta == <<"P", "a", "g", "o", " ", "T", "A", "R", "J", "E", "T", "A">>
Title_fecha == <<"V", "e", "n", "t", "a", " ", "2", "0", "2", "5", "-", "1", "0", "-", "1", "2">>
Fecha_15 == <<"2", "0", "2", "5", "-", "1", "0", "-", "1", "5">>

\* Issues of every kind (and with no tag) with those tables; sales with the
\* payment field and the title varied; issues with the single-item fields,
\* without a table and with a table whose every row is rejected; issues with
\* and without the Fecha field, the title date and created_at.
ParseIssues ==
  {MkEvent("issues/1", <<>>, CreatedAt, l, Fecha_15, <<>>, <<>>, <<>>, <<>>, s) :
     l \in LabelSets \cup {{}}, s \in RowSections \cup LineSections}
  \cup
  {MkEvent("issues/1", <<>>, CreatedAt, l, Fecha_15, <<>>, SKU_B, Cell_2, <<>>,
           << <<SKU_C, Cell_abc, Cell_10_00>>, <<Cell_AB, Cell_3, Cell_10_00>> >>) :
     l \in LabelSets}
  \cup
  {MkEvent("issues/1", t, CreatedAt, l, Fecha_15, m, <<>>, <<>>, <<>>,
           << <<SKU_A, Cell_3, Cell_10_00>> >>) :
     t \in {<<>>, Title_tarjeta, Title_fecha},
     l \in {{L_venta}, {L_venta_mercado}},
     m \in {<<>>, <<"T", "a", "r", "j", "e", "t", "a">>, W_efectivo,
            <<"c", "h", "e", "q", "u", "e">>}}
  \cup
  {MkEvent("issues/1", <<>>, CreatedAt, l, Fecha_15, <<>>, i, c, pr, <<>>) :
     l \in LabelSets, i \in {<<>>, SKU_B, SKU_C, Cell_sku_lower},
     c \in {<<>>, Cell_2, Cell_x, Cell_0, Cell_minus_2}, pr \in {<<>>, Cell_2_50}}
  \cup
  {MkEvent("issues/1", t, c, {L_venta}, f, <<>>, <<>>, <<>>, <<>>,
           << <<SKU_A, Cell_3, Cell_10_00>> >>) :
     t \in {<<>>, Title_fecha}, c \in {CreatedAt, <<>>}, f \in {<<>>, Fecha_15}}

\* One run on one of those issues.
NextParse ==
  \/ \E issue \in ParseIssues : log = <<>> /\ Begin(issue)
  \/ Step

SpecParse == InitParse /\ [][NextParse]_vars

\* n in decimal digits without padding (n < 100).
Unpadded(n) == IF n < 10 THEN <<Digits[n + 1]>> ELSE Pad(n, 2)

\* The written forms of year y, month m, day d in the three formats, with
\* and without the zeros of month and day.
FormsOf(y, m, d) ==
  { Pad(y, 4) \o <<"-">> \o Pad(m, 2) \o <<"-">> \o Pad(d, 2),
    Pad(d, 2) \o <<"/">> \o Pad(m, 2) \o <<"/">> \o Pad(y, 4),
    Pad(y, 4) \o <<"/">> \o Pad(m, 2) \o <<"/">> \o Pad(d, 2),
    Pad(y, 4) \o <<"-">> \o Unpadded(m) \o <<"-">> \o Unpadded(d),
    Unpadded(d) \o <<"/">> \o Unpadded(m) \o <<"/">> \o Pad(y, 4),
    Pad(y, 4) \o <<"/">> \o Unpadded(m) \o <<"/">> \o Unpadded(d) }

\* Years, months and days that make leap and common Februaries, days a month
\* does not have, and days that can be taken for months.
Ymd == {<<y, m, d>> : y \in {2024, 2025}, m \in {1, 2, 12}, d \in {1, 2, 12, 29, 30, 31}}

\* Texts of the Fecha field that are no date in an accepted format.
OtherTexts ==
  { <<>>,
    <<"h", "o", "y">>,
    <<"1", "5", "-", "1", "0", "-", "2", "0", "2", "5">>,
    <<"1", "0", "/", "1", "5", "/", "2", "0", "2", "5">>,
    <<"2", "0", "2", "5", "-", "1", "3", "-", "0", "1">>,
    <<"2", "0", "2", "5", "-", "1", "0", "-", "1", "5", " ", "1", "0", ":", "0", "0">>,
    <<"2", "5", "-", "1", "0", "-", "1", "5">> }

DateIssues ==
  {MkEvent("issues/1", <<>>, c, {L_venta}, f, <<>>, <<>>, <<>>, <<>>,
           << <<SKU_A, Cell_3, Cell_10_00>> >>) :
     c \in {CreatedAt, <<>>},
     f \in OtherTexts \cup UNION {FormsOf(t[1], t[2], t[3]) : t \in Ymd}}
  \cup
  {MkEvent("issues/1", <<>>, CreatedAt, l, f, <<>>, <<>>, <<>>, <<>>,
           << <<SKU_A, Cell_3, Cell_10_00>> >>) :
     l \in LabelSets,
     f \in {<<"1", "5", "/", "1", "0", "/", "2", "0", "2", "5">>, <<"h", "o", "y">>}}

\* One run on a sale whose Fecha field is one of those texts, or on an issue
\* of any kind whose Fecha field is a date or no date.
NextDate ==
  \/ \E issue \in DateIssues : log = <<>> /\ Begin(issue)
  \/ Step

SpecDate == Init /\ [][NextDate]_vars

\* Two invocations of main whose calls interleave in any order: each of the
\* kinds of transaction on one product, from either origin.
ConcurrentIssues ==
  {MkIssue(u, l, << <<SKU_A, Cell_3, Cell_10_00>> >>) : u \in Origins, l \in LabelSets}

NextConcurrent ==
  \/ \E issue \in ConcurrentIssues : Len(log) < MaxRuns /\ Begin(issue)
  \/ Step
  \/ \E issue \in ConcurrentIssues : Len(log) < MaxRuns /\ BeginOther(issue)
  \/ StepOther

SpecConcurrent == Init /\ [][NextConcurrent]_vars

\* Serialized runs, in any of which a write of build_reports may raise.
NextWriteFail ==
  \/ \E issue \in ReportIssues : Len(log) < MaxRuns /\ Begin(issue)
  \/ Step
  \/ \E k \in 0..(Len(reports) - 1) : BuildReportsFails(k)

SpecWriteFail == Init /\ [][NextWriteFail]_vars

Fecha_16 == <<"2", "0", "2", "5", "-", "1", "0", "-", "1", "6">>

\* The rows an earlier run wrote to a sale ledger for one item of an issue.
StoredSale(issue_url, fecha, item, cantidad, precio, run) ==
  SaleRows(InitialInventory, fecha,
           <<[item |-> item, cantidad |-> cantidad, precio_unit |-> precio]>>,
           issue_url, <<>>, new_txn_id("S", run))

\* Sale ledgers as a hand edit of the file can leave them: a row pasted again
\* with another quantity, a row pasted again as it is, and a row whose
\* identity is that of an earlier row of another product and day, with a row
\* of another issue between them.  The last has no duplicate.
EditedLedgers ==
  << StoredSale("issues/1", Fecha_15, SKU_A, 3, Cell_10_00, 0 - 2)
       \o StoredSale("issues/1", Fecha_15, SKU_A, 5, Cell_10_00, 0 - 1),
     StoredSale("issues/2", Fecha_15, SKU_B, 2, Cell_2_50, 0 - 1)
       \o StoredSale("issues/2", Fecha_15, SKU_B, 2, Cell_2_50, 0 - 1),
     StoredSale("issues/1", Fecha_15, SKU_A, 3, Cell_10_00, 0 - 3)
       \o StoredSale("issues/2", Fecha_16, SKU_A, 5, Cell_10_00, 0 - 2)
       \o StoredSale("issues/1", Fecha_16, SKU_B, 2, Cell_2_50, 0 - 1),
     StoredSale("issues/2", Fecha_16, SKU_B, 3, Cell_2_50, 0 - 1) >>

\* The files before the first run, a sale ledger of either scope edited by hand.
InitEdited ==
  \E g, m \in 1..Len(EditedLedgers) :
    /\ g # m
    /\ InitFiles(InitialInventory, <<>>, EditedLedgers[g], EditedLedgers[m])

\* An event of each kind from either origin.
EditedIssues ==
  {MkIssue(u, l, << <<SKU_A, Cell_3, Cell_10_00>> >>) : u \in Origins, l \in LabelSets}

NextEdited ==
  \/ \E issue \in EditedIssues : Len(log) < MaxRuns /\ Begin(issue)
  \/ Step

SpecEdited == InitEdited /\ [][NextEdited]_vars

\* ------------------------------------------------------------------------
\* Vocabulary of the properties
\* ------------------------------------------------------------------------

Products == {SKU_A, SKU_B}

\* The number of runs begun, and whether the last k of them ran to completion
\* with no run in progress.
N == Len(log)

Completed(k) ==
  pc = 0 /\ N >= k /\ \A i \in (N - k + 1)..N : log[i].outcome = "ok"

\* What parse_issue made of the issue of run k: its kind ("venta", "venta_mkt",
\* "prod", "abasto_mkt", "none"), its origin and the items that pass _clean_items.
KindOf(k) == log[k].data.type[1]

OriginOf(k) == log[k].issue.html_url

ItemsOf(k) == _clean_items(log[k].data.items, FALSE)

\* The stock of a product in an inventory file (0 when it has no row).
StockOf(inv, sku) == SumField(RowsAt(inv, {i \in DOMAIN inv : inv[i].item = sku}, 1), "stock")

\* The quantity of a product in a list of items.
QtyOf(items, sku) ==
  SumField(RowsAt(items, {i \in DOMAIN items : items[i].item = sku}, 1), "cantidad")

\* A ledger file without the transaction ids, which differ from run to run.
NoTxn(file) ==
  [i \in DOMAIN file |-> [f \in (DOMAIN file[i]) \ {"txn_id"} |-> file[i][f]]]

\* The rows of a ledger file that come from an origin, as <<item, cantidad>>.
RowsOf(file, url) ==
  LET rows == RowsAt(file, {i \in DOMAIN file : file[i].issue = url}, 1)
  IN [i \in DOMAIN rows |-> <<rows[i].item, rows[i].cantidad>>]

ItemPairs(items) == [i \in DOMAIN items |-> <<items[i].item, items[i].cantidad>>]

\* The ledger a kind of transaction is written to, in a record of the files.
LedgerOf(st, kind) ==
  CASE kind = "venta" -> st.sales
    [] kind = "venta_mkt" -> st.sales_mkt
    [] kind = "prod" -> st.prod
    [] kind = "abasto_mkt" -> st.transfer

\* The inventory a sale of that kind draws from.
InventoryOf(st, kind) == IF kind = "venta_mkt" THEN st.inventory_mkt ELSE st.inventory

SaleKinds == {"venta", "venta_mkt"}

ActionKinds == {"venta", "venta_mkt", "prod", "abasto_mkt"}

\* The last two runs processed the same origin as the same kind of
\* transaction, and the origin had no row in that ledger before the first.
TwiceFresh ==
  /\ Completed(2)
  /\ OriginOf(N) = OriginOf(N - 1)
  /\ KindOf(N) = KindOf(N - 1)
  /\ KindOf(N) \in ActionKinds
  /\ RowsOf(LedgerOf(snap[N - 1], KindOf(N)), OriginOf(N)) = <<>>

\* ------------------------------------------------------------------------
\* Properties
\* ------------------------------------------------------------------------

\* C1: when the same issue is processed in two consecutive runs as a sale, a
\* production or a transfer, every ledger (transaction ids apart) and the
\* stock of every product in both inventories are what they were after the
\* first of the two runs.
C1_SameEventTwiceIsOnce ==
  (/\ Completed(2)
   /\ log[N].issue = log[N - 1].issue
   /\ KindOf(N) \in ActionKinds)
  => /\ NoTxn(SALES_CSV) = NoTxn(snap[N].sales)
     /\ NoTxn(SALES_MKT_CSV) = NoTxn(snap[N].sales_mkt)
     /\ NoTxn(PROD_CSV) = NoTxn(snap[N].prod)
     /\ NoTxn(TRANSFER_MKT_CSV) = NoTxn(snap[N].transfer)
     /\ \A sku \in Products :
          /\ StockOf(INVENTORY_CSV, sku) = StockOf(snap[N].inventory, sku)
          /\ StockOf(INVENTORY_MKT_CSV, sku) = StockOf(snap[N].inventory_mkt, sku)

\* The second of the last two runs is an edit of the first: the same SKUs in
\* the same order, exactly one quantity changed.
QuantityEdit ==
  /\ TwiceFresh
  /\ KindOf(N) \in SaleKinds
  /\ Len(ItemsOf(N)) = Len(ItemsOf(N - 1))
  /\ \A i \in DOMAIN ItemsOf(N) : ItemsOf(N)[i].item = ItemsOf(N - 1)[i].item
  /\ Cardinality({i \in DOMAIN ItemsOf(N) :
                    ItemsOf(N)[i].cantidad # ItemsOf(N - 1)[i].cantidad}) = 1

\* C2: after a sale is processed for a new origin and then processed again
\* with one quantity changed, the rows of that origin in the sale ledger of the
\* scope are exactly one per item, in order, each with the latest quantity, and
\* the row of item i is the one with identity origin#i.
C2_EditConvergence ==
  QuantityEdit =>
    LET file == LedgerOf(Stores, KindOf(N))
    IN /\ RowsOf(file, OriginOf(N)) = ItemPairs(ItemsOf(N))
       /\ \A k \in DOMAIN ItemsOf(N) :
            Cardinality({i \in DOMAIN file :
                           file[i].source_id = SourceId(OriginOf(N), k - 1)}) = 1
       /\ \A i \in DOMAIN file :
            file[i].issue = OriginOf(N) =>
              \E k \in DOMAIN ItemsOf(N) :
                /\ file[i].source_id = SourceId(OriginOf(N), k - 1)
                /\ file[i].item = ItemsOf(N)[k].item
                /\ file[i].cantidad = ItemsOf(N)[k].cantidad

\* A two-item sale whose second quantity was edited has been processed.
C2_Witness ==
  /\ QuantityEdit
  /\ Len(ItemsOf(N)) = 2
  /\ ItemsOf(N)[2].cantidad # ItemsOf(N - 1)[2].cantidad
  /\ Len(RowsOf(LedgerOf(Stores, KindOf(N)), OriginOf(N))) = 2

\* C3: a sale of 3 of a product, then the same origin with the quantity
\* changed to 5, leaves the stock of the product 5 below what it was before
\* the first run.
C3_EditedSaleNetDecrease ==
  (/\ Completed(2)
   /\ OriginOf(N) = OriginOf(N - 1)
   /\ KindOf(N) = KindOf(N - 1)
   /\ KindOf(N) \in SaleKinds
   /\ Len(ItemsOf(N)) = 1 /\ Len(ItemsOf(N - 1)) = 1
   /\ ItemsOf(N)[1].item = ItemsOf(N - 1)[1].item
   /\ ItemsOf(N - 1)[1].cantidad = 3
   /\ ItemsOf(N)[1].cantidad = 5)
  => LET sku == ItemsOf(N)[1].item
     IN StockOf(InventoryOf(Stores, KindOf(N)), sku)
          = StockOf(InventoryOf(snap[N - 1], KindOf(N)), sku) - 5

\* C4: after the same issue is processed twice, its target ledger (general
\* sales, market sales, production or transfer) holds each line item of the
\* origin once.
C4_SupersededNotDuplicated ==
  (TwiceFresh /\ log[N].issue = log[N - 1].issue)
  => RowsOf(LedgerOf(Stores, KindOf(N)), OriginOf(N)) = ItemPairs(ItemsOf(N))

\* C5: after a sale with n items is processed again with fewer (at least one),
\* the sale ledger holds no row of that origin other than those of the latest
\* batch.
C5_UpsertRemovesOrigin ==
  (/\ TwiceFresh
   /\ KindOf(N) \in SaleKinds
   /\ ItemsOf(N) # <<>>
   /\ Len(ItemsOf(N)) < Len(ItemsOf(N - 1)))
  => RowsOf(LedgerOf(Stores, KindOf(N)), OriginOf(N)) = ItemPairs(ItemsOf(N))

\* The signed quantity the runs 1..k applied to a product: in the general
\* scope a sale -q, a production +q, a transfer -q; in the market scope a sale
\* -q, a transfer +q.
RECURSIVE AppliedGen(_, _)
AppliedGen(k, sku) ==
  IF k = 0 THEN 0
  ELSE AppliedGen(k - 1, sku)
       + (CASE KindOf(k) = "venta" -> 0 - QtyOf(ItemsOf(k), sku)
            [] KindOf(k) = "prod" -> QtyOf(ItemsOf(k), sku)
            [] KindOf(k) = "abasto_mkt" -> 0 - QtyOf(ItemsOf(k), sku)
            [] OTHER -> 0)

RECURSIVE AppliedMkt(_, _)
AppliedMkt(k, sku) ==
  IF k = 0 THEN 0
  ELSE AppliedMkt(k - 1, sku)
       + (CASE KindOf(k) = "venta_mkt" -> 0 - QtyOf(ItemsOf(k), sku)
            [] KindOf(k) = "abasto_mkt" -> QtyOf(ItemsOf(k), sku)
            [] OTHER -> 0)

\* C6: between runs, the stock of each product in each scope is its initial
\* stock plus the signed sum of the quantities the runs applied to it; nothing
\* is clamped.
C6_StockConservation ==
  Completed(N) =>
    \A sku \in Products :
      /\ StockOf(INVENTORY_CSV, sku) = StockOf(InitialInventory, sku) + AppliedGen(N, sku)
      /\ StockOf(INVENTORY_MKT_CSV, sku) = AppliedMkt(N, sku)

\* Two sales have driven a stock below zero.
C6_Witness ==
  /\ Completed(2)
  /\ \E sku \in Products :
       /\ StockOf(INVENTORY_MKT_CSV, sku) < 0
       /\ StockOf(INVENTORY_MKT_CSV, sku) = AppliedMkt(N, sku)
       /\ AppliedMkt(N, sku) # AppliedMkt(1, sku)

TransferFields == {"txn_id", "fecha", "item", "cantidad", "issue"}

\* C7: a transfer takes each item's quantity out of the general stock and adds
\* it to the market stock, appends one row without price per item to the
\* transfer ledger, and leaves the sales and production ledgers as they were.
C7_Transfer ==
  (Completed(1) /\ KindOf(N) = "abasto_mkt") =>
    LET items == ItemsOf(N)
        old == snap[N]
        added == SubSeq(TRANSFER_MKT_CSV, Len(old.transfer) + 1, Len(TRANSFER_MKT_CSV))
    IN /\ \A sku \in Products :
            /\ StockOf(INVENTORY_CSV, sku)
                 = StockOf(old.inventory, sku) - QtyOf(items, sku)
            /\ StockOf(INVENTORY_MKT_CSV, sku)
                 = StockOf(old.inventory_mkt, sku) + QtyOf(items, sku)
            /\ StockOf(INVENTORY_CSV, sku) + StockOf(INVENTORY_MKT_CSV, sku)
                 = StockOf(old.inventory, sku) + StockOf(old.inventory_mkt, sku)
       /\ SubSeq(TRANSFER_MKT_CSV, 1, Len(old.transfer)) = old.transfer
       /\ Len(added) = Len(items)
       /\ \A i \in DOMAIN added :
            /\ DOMAIN added[i] = TransferFields
            /\ added[i].item = items[i].item
            /\ added[i].cantidad = items[i].cantidad
            /\ added[i].issue = OriginOf(N)
       /\ SALES_CSV = old.sales
       /\ SALES_MKT_CSV = old.sales_mkt
       /\ PROD_CSV = old.prod

\* A transfer of two products has been processed after another run.
C7_Witness ==
  /\ Completed(2)
  /\ KindOf(N) = "abasto_mkt"
  /\ Len(ItemsOf(N)) = 2
  /\ StockOf(INVENTORY_MKT_CSV, SKU_B) > StockOf(snap[N].inventory_mkt, SKU_B)
  /\ StockOf(INVENTORY_CSV, SKU_B) < StockOf(snap[N].inventory, SKU_B)

\* The classification the rule table gives: the first match among market
\* sale, market transfer, production, general sale.
RuleKind(labels) ==
  IF L_venta_mercado \in labels \/ (L_mercado \in labels /\ L_venta \in labels)
  THEN "venta_mkt"
  ELSE IF L_abasto_mercado \in labels \/ L_traspaso_mercado \in labels
  THEN "abasto_mkt"
  ELSE IF L_produccion \in labels \/ L_produccion_acento \in labels
  THEN "prod"
  ELSE IF L_venta \in labels /\ L_venta_mercado \notin labels /\ L_mercado \notin labels
  THEN "venta"
  ELSE "none"

\* C8: every set of tags is classified by the first matching rule in the order
\* market sale, market transfer, production, general sale, and main runs the
\* calls of that kind.
C8_DispatchOrder ==
  pc > 0 =>
    /\ data.type[1] = RuleKind(data.labels)
    /\ Plan(data.type) = Plan(<<RuleKind(data.labels)>>)

LedgerFiles == {"SALES_CSV", "SALES_MKT_CSV", "PROD_CSV", "TRANSFER_MKT_CSV"}

InventoryFiles == {"INVENTORY_CSV", "INVENTORY_MKT_CSV"}

ReportFiles ==
  {"REPORT_JSON", "SALES_ITEM_CSV", "SALES_DAY_CSV", "SALES_DETAIL_CSV", "DIARIO_DIR",
   "SALES_MKT_DETAIL_CSV", "SALES_MKT_DAY_CSV", "MKT_DIARIO_DIR"}

\* Every write of the run to a file of A came before every write to a file of B.
WritesBefore(A, B) ==
  \A i, j \in DOMAIN writes : (writes[i] \in A /\ writes[j] \in B) => i < j

\* C9 as stated: in every run the ledger write comes before any inventory
\* write, and every inventory write before the reports.
C9_LedgerThenStockThenReports ==
  /\ WritesBefore(LedgerFiles, InventoryFiles)
  /\ WritesBefore(InventoryFiles, ReportFiles)

\* C9, amended: in a sale or a production the ledger write comes before the
\* inventory write; in a transfer both inventory writes come before the ledger
\* write; in every run the ledger and inventory writes come before the reports,
\* and a completed run with an accepted item has made all three.
C9_WriteOrder ==
  N >= 1 =>
    /\ KindOf(N) \in {"venta", "venta_mkt", "prod"} => WritesBefore(LedgerFiles, InventoryFiles)
    /\ KindOf(N) = "abasto_mkt" => WritesBefore(InventoryFiles, LedgerFiles)
    /\ WritesBefore(LedgerFiles \cup InventoryFiles, ReportFiles)
    /\ (Completed(1) /\ KindOf(N) \in ActionKinds /\ ItemsOf(N) # <<>>) =>
         /\ Range(writes) \cap LedgerFiles # {}
         /\ Range(writes) \cap InventoryFiles # {}
         /\ writes[Len(writes)] \in ReportFiles

\* A transfer and a general sale have each run to completion.
C9_Witness ==
  /\ Completed(2)
  /\ KindOf(N) = "abasto_mkt"
  /\ KindOf(N - 1) = "venta"
  /\ SubSeq(writes, 1, 4) = <<"INVENTORY_CSV", "INVENTORY_MKT_CSV", "TRANSFER_MKT_CSV", "SALES_DETAIL_CSV">>
  /\ writes[Len(writes)] \in ReportFiles

\* The data files without the transaction ids.
NoTxnStores(st) ==
  [inventory |-> st.inventory, inventory_mkt |-> st.inventory_mkt,
   sales |-> NoTxn(st.sales), sales_mkt |-> NoTxn(st.sales_mkt),
   prod |-> NoTxn(st.prod), transfer |-> NoTxn(st.transfer)]

\* C10: when a run dies after some but not all of its writes to the ledger
\* and inventory files, and the next run processes the same issue to
\* completion, the files are what one uninterrupted run would have left.
C10_CrashThenRerunConverges ==
  (/\ pc = 0 /\ N >= 2
   /\ log[N].outcome = "ok"
   /\ log[N - 1].outcome = "crash"
   /\ log[N].issue = log[N - 1].issue
   /\ KindOf(N) \in ActionKinds
   /\ ItemsOf(N) # <<>>
   /\ log[N - 1].steps >= 1
   /\ log[N - 1].steps < Len(Plan(parse_issue(log[N].issue).type)) - 1)
  => NoTxnStores(Stores) = NoTxnStores(main(snap[N - 1], log[N].issue, N))

SectionOf(k) == log[k].issue.body.section

NeedCells(kind) == IF kind \in SaleKinds THEN 3 ELSE 2

\* A product code as the data model defines it: at least three characters,
\* each an uppercase letter, a digit, a hyphen or a colon.
ValidCode(c) == Len(c) >= 3 /\ \A i \in DOMAIN c : c[i] \in SkuAlphabet

\* A malformed row: the code is invalid, or the quantity is no integer or is
\* not positive.
Malformed(parts) ==
  \/ ~ValidCode(parts[1])
  \/ ~PyInt(parts[2]).ok
  \/ PyInt(parts[2]).val <= 0

\* The rows of the table of run k that are neither heading nor malformed, as
\* <<code, quantity>>.
GoodRows(k) ==
  LET sec == SectionOf(k)
      good == RowsAt(sec, {i \in DOMAIN sec : ~IsHeaderRow(sec[i]) /\ ~Malformed(sec[i])}, 1)
  IN [i \in DOMAIN good |-> <<good[i][1], PyInt(good[i][2]).val>>]

RECURSIVE SumSecond(_)
SumSecond(pairs) == IF pairs = <<>> THEN 0 ELSE pairs[1][2] + SumSecond(Tail(pairs))

\* The quantity of a code over a sequence of <<code, quantity>>.
QtyIn(pairs, sku) ==
  SumSecond(RowsAt(pairs, {i \in DOMAIN pairs : pairs[i][1] = sku}, 1))

\* The sign with which a kind of transaction moves the stock of a scope (0
\* when it leaves the scope alone).
SignIn(scope, kind) ==
  IF scope = "general"
  THEN (CASE kind = "venta" -> 0 - 1 [] kind = "prod" -> 1
          [] kind = "abasto_mkt" -> 0 - 1 [] OTHER -> 0)
  ELSE (CASE kind = "venta_mkt" -> 0 - 1 [] kind = "abasto_mkt" -> 1 [] OTHER -> 0)

\* The table of run k has a malformed row and a good one, and every row has
\* the cells its kind needs.
MixedTable(k) ==
  /\ KindOf(k) \in ActionKinds
  /\ \A i \in DOMAIN SectionOf(k) : Len(SectionOf(k)[i]) >= NeedCells(KindOf(k))
  /\ \E i \in DOMAIN SectionOf(k) :
       ~IsHeaderRow(SectionOf(k)[i]) /\ Malformed(SectionOf(k)[i])
  /\ GoodRows(k) # <<>>

\* The first cells of the rows of run k, and the products of the inventories.
CodesOf(k) == {SectionOf(k)[i][1] : i \in DOMAIN SectionOf(k)} \cup {SKU_A, SKU_B, SKU_C}

\* C12: when the Items table of an event has malformed rows (quantity not a
\* number or not positive, or invalid product code) among good ones, the run
\* completes with the reports rebuilt, the ledger of the event's kind gets one
\* row per good row and none for a malformed row, and every stock moves by the
\* quantities of the good rows only.
C12_MalformedRowDropped ==
  (Completed(1) /\ MixedTable(N)) =>
    /\ RowsOf(LedgerOf(Stores, KindOf(N)), OriginOf(N)) = GoodRows(N)
    /\ \A sku \in CodesOf(N) :
         /\ StockOf(INVENTORY_CSV, sku)
              = StockOf(snap[N].inventory, sku)
                + SignIn("general", KindOf(N)) * QtyIn(GoodRows(N), sku)
         /\ StockOf(INVENTORY_MKT_CSV, sku)
              = StockOf(snap[N].inventory_mkt, sku)
                + SignIn("market", KindOf(N)) * QtyIn(GoodRows(N), sku)
    /\ log[N].outcome = "ok"
    /\ REPORT_JSON.run = N

\* A sale with the row SKU-C | abc and a good row has been processed: one
\* ledger row, the stock of SKU-C as it was.
C12_Witness ==
  /\ Completed(1) /\ MixedTable(N)
  /\ KindOf(N) = "venta"
  /\ \E i \in DOMAIN SectionOf(N) :
       SectionOf(N)[i][1] = SKU_C /\ SectionOf(N)[i][2] = Cell_abc
  /\ Len(SALES_CSV) = 1
  /\ StockOf(INVENTORY_CSV, SKU_C) = StockOf(snap[N].inventory, SKU_C)
  /\ StockOf(INVENTORY_CSV, SKU_A) < StockOf(snap[N].inventory, SKU_A)

\* The tags parse_issue looks for.
RecognizedTags ==
  {L_venta, L_venta_mercado, L_mercado, L_produccion, L_produccion_acento,
   L_abasto_mercado, L_traspaso_mercado}

\* The event of run k carries no recognized tag.
NoTag(k) == {Lower(l) : l \in log[k].issue.labels} \cap RecognizedTags = {}

\* Every row of the table of run k is rejected (or there is no table), and
\* the single Item and Cantidad fields give no item either.
AllRejected(k) ==
  /\ ~NoTag(k)
  /\ \A i \in DOMAIN SectionOf(k) : Len(SectionOf(k)[i]) >= 3
  /\ GoodRows(k) = <<>>
  /\ \/ ~ValidCode(log[k].issue.body.Item)
     \/ (PyInt(log[k].issue.body.Cantidad).ok /\ PyInt(log[k].issue.body.Cantidad).val <= 0)

\* C13: a run on an event with no recognized tag, or whose every item is
\* rejected, leaves the four ledgers as they were and every stock of both
\* scopes as it was, and rebuilds the reports.
C13_NoItemNoChange ==
  (Completed(1) /\ (NoTag(N) \/ AllRejected(N))) =>
    /\ SALES_CSV = snap[N].sales
    /\ SALES_MKT_CSV = snap[N].sales_mkt
    /\ PROD_CSV = snap[N].prod
    /\ TRANSFER_MKT_CSV = snap[N].transfer
    /\ \A sku \in CodesOf(N) \cup {log[N].issue.body.Item} :
         /\ StockOf(INVENTORY_CSV, sku) = StockOf(snap[N].inventory, sku)
         /\ StockOf(INVENTORY_MKT_CSV, sku) = StockOf(snap[N].inventory_mkt, sku)
    /\ REPORT_JSON.run = N
    /\ "REPORT_JSON" \in Range(writes)

\* A sale whose two rows are both rejected has been processed: the inventory
\* file was written again, then the reports.
C13_Witness ==
  /\ Completed(1) /\ AllRejected(N)
  /\ KindOf(N) = "venta"
  /\ Len(SectionOf(N)) = 2
  /\ writes[1] = "INVENTORY_CSV"
  /\ REPORT_JSON.run = N
  /\ SALES_CSV = <<>>

\* The payment field of the event of run k in lower case, and the rows the
\* completed sale of run k left in its ledger.
PaymentField(k) == Lower(log[k].issue.body.Metodo)

SaleDone(k) == Completed(1) /\ k = N /\ KindOf(k) \in SaleKinds

PricedItemsOf(k) == _clean_items(log[k].data.items, TRUE)

\* The records of a product in an inventory file.
RecordsOf(inv, sku) == RowsAt(inv, {i \in DOMAIN inv : inv[i].item = sku}, 1)

\* The unit price the rule gives: the explicit price when it is a number,
\* else the default price of the product's record when it has one, else zero.
RulePrice(inv, sku, cell) ==
  IF ToNumeric(cell).ok THEN ToNumeric(cell).val
  ELSE IF RecordsOf(inv, sku) # <<>> /\ RecordsOf(inv, sku)[1].precio.ok
  THEN RecordsOf(inv, sku)[1].precio.val
  ELSE 0

\* C15: every row a sale writes to its ledger carries the explicit price of
\* its item when that is a number, otherwise the default price the product
\* has in the inventory of the sale's scope, otherwise zero; and its amount is
\* its quantity times that unit price.
C15_PriceResolution ==
  SaleDone(N) =>
    LET file == LedgerOf(Stores, KindOf(N))
        items == PricedItemsOf(N)
    IN /\ Len(file) = Len(items)
       /\ \A i \in DOMAIN file :
            /\ file[i].item = items[i].item
            /\ file[i].precio_unit
                 = RulePrice(InventoryOf(snap[N], KindOf(N)), items[i].item,
                             items[i].precio_unit)
            /\ file[i].importe = file[i].cantidad * file[i].precio_unit

\* A market sale has been recorded with a row at its explicit price, a row at
\* the market inventory's default price, which differs from the general one,
\* and a row at zero for a product the market inventory does not hold.
C15_Witness ==
  /\ SaleDone(N)
  /\ KindOf(N) = "venta_mkt"
  /\ \E i, j, k \in DOMAIN SALES_MKT_CSV :
       /\ SALES_MKT_CSV[i].item = SKU_A /\ SALES_MKT_CSV[i].precio_unit = 1500
       /\ SALES_MKT_CSV[i].importe = 4500
       /\ SALES_MKT_CSV[j].item = SKU_A /\ SALES_MKT_CSV[j].precio_unit = 250
       /\ SALES_MKT_CSV[k].item = SKU_B /\ SALES_MKT_CSV[k].precio_unit = 0

\* The inventory file of a scope in a record of the data files.
ScopeInventory(st, scope) == IF scope = "general" THEN st.inventory ELSE st.inventory_mkt

\* C16: when a completed run applies a stock delta in a scope for a product
\* code that has no record there, the scope's inventory afterwards holds
\* exactly one record for the code: stock sign x quantity, empty description,
\* no price, and the product_id that short_id_from_sku derives from the code.
C16_AutoCreate ==
  (Completed(1) /\ KindOf(N) \in ActionKinds) =>
    \A scope \in {"general", "market"} :
      \A sku \in {ItemsOf(N)[i].item : i \in DOMAIN ItemsOf(N)} :
        (SignIn(scope, KindOf(N)) # 0 /\ RecordsOf(ScopeInventory(snap[N], scope), sku) = <<>>)
        => RecordsOf(ScopeInventory(Stores, scope), sku)
             = <<[item |-> sku, descripcion |-> <<>>,
                  stock |-> SignIn(scope, KindOf(N)) * QtyOf(ItemsOf(N), sku),
                  precio |-> NaN, product_id |-> <<"sha1", sku>>]>>

\* A transfer of a product that neither scope holds has been processed: each
\* scope now holds one record for it, with stock -3 and +3.
C16_Witness ==
  /\ Completed(1)
  /\ KindOf(N) = "abasto_mkt"
  /\ RecordsOf(snap[N].inventory, SKU_B) = <<>>
  /\ RecordsOf(snap[N].inventory_mkt, SKU_B) = <<>>
  /\ Len(RecordsOf(INVENTORY_CSV, SKU_B)) = 1
  /\ Len(RecordsOf(INVENTORY_MKT_CSV, SKU_B)) = 1
  /\ RecordsOf(INVENTORY_CSV, SKU_B)[1].stock = 0 - 3
  /\ RecordsOf(INVENTORY_MKT_CSV, SKU_B)[1].stock = 3

\* A day of the calendar.
OnCalendar(y, m, d) ==
  /\ m \in 1..12
  /\ d >= 1
  /\ d <= (IF m = 2 THEN (IF (y % 4 = 0 /\ y % 100 # 0) \/ y % 400 = 0 THEN 29 ELSE 28)
            ELSE IF m \in {4, 6, 9, 11} THEN 30 ELSE 31)

\* The canonical text YYYY-MM-DD of a day.
Canonical(y, m, d) ==
  <<Digits[((y \div 1000) % 10) + 1], Digits[((y \div 100) % 10) + 1],
    Digits[((y \div 10) % 10) + 1], Digits[(y % 10) + 1], "-",
    Digits[(m \div 10) + 1], Digits[(m % 10) + 1], "-",
    Digits[(d \div 10) + 1], Digits[(d % 10) + 1]>>

\* t is the canonical text of some day of the calendar.
IsCanonical(t) ==
  /\ Len(t) = 10
  /\ t[5] = "-" /\ t[8] = "-"
  /\ \A i \in {1, 2, 3, 4, 6, 7, 9, 10} : IsDigit(t[i])
  /\ OnCalendar(DigitsValue(SubSeq(t, 1, 4)), DigitsValue(SubSeq(t, 6, 7)),
                DigitsValue(SubSeq(t, 9, 10)))

\* The days of the calendar of which the text is a written form.
DaysWritten(text) ==
  {t \in (2024..2025) \X (1..12) \X (1..31) :
     OnCalendar(t[1], t[2], t[3]) /\ text \in FormsOf(t[1], t[2], t[3])}

\* The Fecha field and the creation timestamp of the event being processed.
FechaField == log[N].issue.body.Fecha

CreatedField == log[N].issue.created_at

\* C17: the date a run resolves is always a canonical YYYY-MM-DD date: the
\* day the Fecha field writes in one of the three formats, otherwise the first
\* ten characters of the creation timestamp, otherwise the current date.
C17_DateFallback ==
  pc > 0 =>
    LET days == DaysWritten(FechaField) IN
      /\ IsCanonical(data.fecha)
      /\ \A t \in days : data.fecha = Canonical(t[1], t[2], t[3])
      /\ (days = {} /\ CreatedField # <<>>) => data.fecha = SubSeq(CreatedField, 1, 10)
      /\ (days = {} /\ CreatedField = <<>>) => data.fecha = Today

\* A run has resolved the leap day written DD/MM/YYYY to its canonical text
\* and written a file with it.
C17_Witness ==
  /\ pc > 0
  /\ FechaField = <<"2", "9", "/", "0", "2", "/", "2", "0", "2", "4">>
  /\ data.fecha = <<"2", "0", "2", "4", "-", "0", "2", "-", "2", "9">>
  /\ Len(writes) >= 1

\* C18: the written forms of one day in the three formats all resolve to the
\* canonical text the run resolved, and no written form of another day
\* resolves to it.
C18_DateCanonicalization ==
  pc = 1 =>
    LET mine == DaysWritten(FechaField)
    IN mine # {} =>
         \A t \in Ymd :
           OnCalendar(t[1], t[2], t[3]) =>
             \A f \in FormsOf(t[1], t[2], t[3]) :
               (safe_parse_date(f, log[N].issue) = data.fecha) <=> (t \in mine)

\* The run has resolved 01/12/2025, whose day could be taken for a month.
C18_Witness ==
  /\ pc = 1
  /\ FechaField = <<"0", "1", "/", "1", "2", "/", "2", "0", "2", "5">>
  /\ data.fecha = <<"2", "0", "2", "5", "-", "1", "2", "-", "0", "1">>
  /\ safe_parse_date(<<"2", "0", "2", "5", "/", "1", "2", "/", "1">>, log[N].issue) = data.fecha
  /\ safe_parse_date(<<"1", "2", "/", "0", "1", "/", "2", "0", "2", "5">>, log[N].issue) # data.fecha

\* The date written at the end of a title: its last ten characters, when they
\* are a canonical date.
TitleEndsWithDate(title) ==
  Len(title) >= 10 /\ IsCanonical(SubSeq(title, Len(title) - 9, Len(title)))

\* C19: when the body has no Fecha field and the title ends with a date, the
\* date the run resolves is the one at the end of the title.
C19_TitleDate ==
  (pc > 0 /\ FechaField = <<>> /\ TitleEndsWithDate(log[N].issue.title)) =>
    data.fecha = SubSeq(log[N].issue.title, Len(log[N].issue.title) - 9,
                        Len(log[N].issue.title))

\* Every report file is as it was when the run began.
ReportsUnchanged == Reports = published[N]

\* Every report file is what a rebuild from the data files gives.
ReportsCurrent ==
  /\ SALES_ITEM_CSV = by_item(ReadSales(SALES_CSV))
  /\ SALES_DAY_CSV = by_day(ReadSales(SALES_CSV))
  /\ REPORT_JSON.summary = Summary(_load_inventory_file(INVENTORY_CSV), SALES_CSV, PROD_CSV)
  /\ (SALES_MKT_CSV # <<>> => SALES_MKT_DAY_CSV = by_day(ReadSales(SALES_MKT_CSV)))

\* C20: after a run whose report rebuild failed on a write, either every
\* report file reflects the data files or none has changed.
C20_ReportsAllOrNothing ==
  (pc = 0 /\ N >= 1 /\ log[N].outcome = "failed") => (ReportsUnchanged \/ ReportsCurrent)

\* The dates of the rows of a ledger, and its rows of one date.
LedgerDates(file) == {file[i].fecha : i \in DOMAIN file}

RowsOn(file, fecha) == RowsAt(file, {i \in DOMAIN file : file[i].fecha = fecha}, 1)

\* The rows of an extract without the columns joined from the inventory.
LedgerPart(rows) ==
  [i \in DOMAIN rows |->
     [f \in (DOMAIN rows[i]) \ {"product_id", "descripcion"} |-> rows[i][f]]]

\* The per-day extracts of a directory are those of a ledger: one per date of
\* the ledger, each with the ledger's rows of its date.
ExtractsOf(dir, file) ==
  /\ DOMAIN dir = LedgerDates(file)
  /\ \A f \in DOMAIN dir : LedgerPart(dir[f]) = RowsOn(file, f)

\* C21: after every rebuild, the per-day extracts of each scope are exactly
\* one per date of the scope's sale ledger, each holding exactly the ledger
\* rows of its date; no extract holds rows under a date they no longer have.
C21_DailyExtracts ==
  Completed(1) =>
    /\ ExtractsOf(DIARIO_DIR, SALES_CSV)
    /\ ExtractsOf(MKT_DIARIO_DIR, SALES_MKT_CSV)

\* One row of the per-item rollup comes before another: more quantity, or
\* the same quantity and more amount, or the same of both and the lesser code.
RollupOrder(a, b) ==
  \/ a.cantidad > b.cantidad
  \/ (a.cantidad = b.cantidad /\ a.importe > b.importe)
  \/ (a.cantidad = b.cantidad /\ a.importe = b.importe /\ StrLess(a.item, b.item))

\* The products of the rows of a file, and the amount of a product in it.
ItemsIn(file) == {file[i].item : i \in DOMAIN file}

AmountOf(file, sku) ==
  SumField(RowsAt(file, {i \in DOMAIN file : file[i].item = sku}, 1), "importe")

CodesIn(items) == {items[i].item : i \in DOMAIN items}

\* The identities of the rows that a run wrote for a product in a sale ledger.
IdentitiesBy(file, run, sku) ==
  {file[i].source_id : i \in {j \in DOMAIN file : file[j].txn_id[2] = run /\ file[j].item = sku}}

\* The last two runs processed the same origin as a sale of the same scope,
\* the origin being new before the first, and neither version of the event
\* names a product twice.
SaleEdited ==
  /\ TwiceFresh
  /\ KindOf(N) \in SaleKinds
  /\ Cardinality(CodesIn(ItemsOf(N))) = Len(ItemsOf(N))
  /\ Cardinality(CodesIn(ItemsOf(N - 1))) = Len(ItemsOf(N - 1))

\* C23: when an origin is processed again after an edit, the row of every
\* product that both versions hold keeps the identity it had, and the row of
\* a product only the new version holds gets an identity no row of the old
\* version had.
C23_IdentityStable ==
  SaleEdited =>
    LET now == LedgerOf(Stores, KindOf(N))
        was == LedgerOf(snap[N], KindOf(N))
    IN /\ \A sku \in CodesIn(ItemsOf(N)) \cap CodesIn(ItemsOf(N - 1)) :
            IdentitiesBy(now, N, sku) = IdentitiesBy(was, N - 1, sku)
       /\ \A sku \in CodesIn(ItemsOf(N)) \ CodesIn(ItemsOf(N - 1)) :
            \A old \in CodesIn(ItemsOf(N - 1)) :
              IdentitiesBy(now, N, sku) \cap IdentitiesBy(was, N - 1, old) = {}

\* No invocation is running and every run begun has completed.
AllDone ==
  /\ pc = 0 /\ other.pc = 0
  /\ \A k \in 1..N : log[k].outcome = "ok"

\* The stock of a product in both scopes is what the runs applied to it.
DeltasKept(sku) ==
  /\ StockOf(INVENTORY_CSV, sku) = StockOf(InitialInventory, sku) + AppliedGen(N, sku)
  /\ StockOf(INVENTORY_MKT_CSV, sku) = AppliedMkt(N, sku)

\* The ledger of the kind of run k holds a row for each of its items: a sale
\* row under the item's identity (a later run of the origin may have
\* superseded it), a production or transfer row written by the run.
RowsKept(k) ==
  KindOf(k) \in ActionKinds =>
    LET file == LedgerOf(Stores, KindOf(k))
    IN \A i \in DOMAIN ItemsOf(k) :
         IF KindOf(k) \in SaleKinds
         THEN \E j \in DOMAIN file : file[j].source_id = SourceId(OriginOf(k), i - 1)
         ELSE \E j \in DOMAIN file :
                /\ file[j].txn_id[2] = k
                /\ file[j].item = ItemsOf(k)[i].item
                /\ file[j].cantidad = ItemsOf(k)[i].cantidad

\* C24: when invocations run one after another, no row and no stock delta of
\* a run is lost; when two invocations overlap, a state is reachable in which
\* a stock delta is missing from the inventory (the witness).
C24_SerializedKeepsUpdates ==
  (AllDone /\ ~other.overlapped) =>
    /\ \A sku \in Products : DeltasKept(sku)
    /\ \A k \in 1..N : RowsKept(k)

\* Two sales of SKU-A overlapped and both completed: both rows are in the
\* ledger, but the stock has gone down by one sale only.
C24_Witness ==
  /\ AllDone /\ N = 2
  /\ other.overlapped
  /\ KindOf(1) = "venta" /\ KindOf(2) = "venta"
  /\ OriginOf(1) # OriginOf(2)
  /\ Len(SALES_CSV) = 2
  /\ StockOf(INVENTORY_CSV, SKU_A) = StockOf(InitialInventory, SKU_A) - 3
  /\ ~DeltasKept(SKU_A)

\* C25: between serialized runs that all completed, the stock of every
\* product agrees with the ledgers: the general stock is the initial stock
\* plus the production ledger's quantity less the general sale ledger's and
\* the transfer ledger's; the market stock is the initial stock plus the
\* transfer ledger's quantity less the market sale ledger's.
C25_StockMatchesLedgers ==
  Completed(N) =>
    \A sku \in Products :
      /\ StockOf(INVENTORY_CSV, sku)
           = StockOf(InitialInventory, sku) + QtyOf(PROD_CSV, sku)
             - QtyOf(SALES_CSV, sku) - QtyOf(TRANSFER_MKT_CSV, sku)
      /\ StockOf(INVENTORY_MKT_CSV, sku)
           = QtyOf(TRANSFER_MKT_CSV, sku) - QtyOf(SALES_MKT_CSV, sku)

\* Every line of the table of run k is a row of at least two cells.
AllRows(k) == \A i \in DOMAIN SectionOf(k) : Len(SectionOf(k)[i]) >= 2

\* C26: in a sale whose table has a row with a valid product code and a
\* positive integer quantity, every such row yields a line item, with or
\* without a third cell, and a completed run has recorded each of them.
C26_PriceCellOptional ==
  (N >= 1 /\ KindOf(N) \in SaleKinds /\ AllRows(N) /\ GoodRows(N) # <<>>) =>
    /\ ItemPairs(log[N].data.items) = GoodRows(N)
    /\ Completed(1) => RowsOf(LedgerOf(Stores, KindOf(N)), OriginOf(N)) = GoodRows(N)

\* A line of the section that is empty, and one that is text without "|".
IsBlank(parts) == parts = << <<>> >>

IsText(parts) == Len(parts) = 1 /\ parts[1] # <<>>

\* The rows between the Items heading and the first line of text (or the end
\* of the section), empty lines apart.
RowsRead(sec) ==
  LET texts == {i \in DOMAIN sec : IsText(sec[i])}
      end == IF texts = {} THEN Len(sec) + 1
             ELSE CHOOSE i \in texts : \A j \in texts : i <= j
  IN RowsAt(sec, {i \in DOMAIN sec : i < end /\ ~IsBlank(sec[i])}, 1)

\* The items of those rows that are no heading and that the row rule accepts.
ItemsRead(sec, has_price) ==
  LET rows == RowsRead(sec)
      ok == RowsAt(rows, {i \in DOMAIN rows :
                            ~IsHeaderRow(rows[i]) /\ RowItem(rows[i], has_price).ok}, 1)
  IN [i \in DOMAIN ok |-> RowItem(ok[i], has_price).rec]

\* The items the run took from the table (none when it fell back to the
\* single-item fields).
TableItems(k) ==
  IF Len(log[k].data.type) = 2 /\ log[k].data.type[2] = "multi"
  THEN log[k].data.items ELSE <<>>

\* C27: the item rows read from an event are those between the Items heading
\* and the first following line that is non-empty and has no pipe: an empty
\* line does not end the table, and no row after a line of text is read.
C27_TableExtent ==
  (N >= 1 /\ KindOf(N) \in ActionKinds) =>
    TableItems(N) = ItemsRead(SectionOf(N), KindOf(N) \in SaleKinds)

\* The single fields of the event of run k, and the quantity they give.
ItemField(k) == log[k].issue.body.Item

CantidadField(k) == log[k].issue.body.Cantidad

SingleQty(k) == IF PyInt(CantidadField(k)).ok THEN PyInt(CantidadField(k)).val ELSE 1

\* Run k took no item from its table.
FellBack(k) ==
  /\ KindOf(k) \in ActionKinds
  /\ log[k].data.type[2] = "single"

\* C30: when no table row is accepted, a tagged event gives exactly one
\* candidate item from the Item, Cantidad and price fields, its quantity the
\* Cantidad value when that is an integer and 1 otherwise; a completed run
\* has written it to the ledger and moved the stock by it if and only if its
\* code is valid and its quantity positive.
C30_SingleItemFallback ==
  (N >= 1 /\ FellBack(N)) =>
    LET applies == ValidCode(ItemField(N)) /\ SingleQty(N) > 0
        moved == IF applies THEN <<<<ItemField(N), SingleQty(N)>>>> ELSE <<>>
    IN /\ Len(log[N].data.items) = 1
       /\ log[N].data.items[1].item = ItemField(N)
       /\ log[N].data.items[1].cantidad = SingleQty(N)
       /\ KindOf(N) \in SaleKinds =>
            log[N].data.items[1].precio_unit = log[N].issue.body.Precio
       /\ Completed(1) =>
            /\ RowsOf(LedgerOf(Stores, KindOf(N)), OriginOf(N)) = moved
            /\ Len(LedgerOf(Stores, KindOf(N)))
                 = Len(LedgerOf(snap[N], KindOf(N))) + Len(moved)
            /\ \A sku \in {ItemField(N), SKU_A, SKU_B, SKU_C} :
                 /\ StockOf(INVENTORY_CSV, sku)
                      = StockOf(snap[N].inventory, sku)
                        + SignIn("general", KindOf(N)) * QtyIn(moved, sku)
                 /\ StockOf(INVENTORY_MKT_CSV, sku)
                      = StockOf(snap[N].inventory_mkt, sku)
                        + SignIn("market", KindOf(N)) * QtyIn(moved, sku)

\* A sale with no table, Item SKU-B and a Cantidad that is no integer has
\* been recorded as one unit of SKU-B.
C30_Witness ==
  /\ Completed(1) /\ FellBack(N)
  /\ KindOf(N) = "venta"
  /\ ItemField(N) = SKU_B
  /\ CantidadField(N) = Cell_x
  /\ Len(SALES_CSV) = 1
  /\ SALES_CSV[1].cantidad = 1
  /\ StockOf(INVENTORY_CSV, SKU_B) = StockOf(snap[N].inventory, SKU_B) - 1

\* The stock of some product in the inventory differs from what it was.
StockChanged(inv, was) ==
  \E i \in DOMAIN inv : StockOf(inv, inv[i].item) # StockOf(was, inv[i].item)

\* C29: a general sale or a production leaves the market inventory, the
\* market sales ledger and the transfer ledger as they were when the run
\* began, and a market sale leaves the general inventory, the general sales
\* ledger and the production ledger so; a run that has changed the stock of
\* both scopes is a transfer.
C29_ScopeFrame ==
  N >= 1 =>
    /\ KindOf(N) \in {"venta", "prod"} =>
         /\ INVENTORY_MKT_CSV = snap[N].inventory_mkt
         /\ SALES_MKT_CSV = snap[N].sales_mkt
         /\ TRANSFER_MKT_CSV = snap[N].transfer
    /\ KindOf(N) = "venta_mkt" =>
         /\ INVENTORY_CSV = snap[N].inventory
         /\ SALES_CSV = snap[N].sales
         /\ PROD_CSV = snap[N].prod
    /\ ( /\ StockChanged(INVENTORY_CSV, snap[N].inventory)
         /\ StockChanged(INVENTORY_MKT_CSV, snap[N].inventory_mkt) ) =>
         KindOf(N) = "abasto_mkt"

\* After a transfer, a general sale has completed: it has changed the general
\* stock and its ledger and left the market inventory the transfer filled.
C29_Witness ==
  /\ Completed(2)
  /\ KindOf(1) = "abasto_mkt"
  /\ KindOf(2) = "venta"
  /\ snap[2].inventory_mkt # <<>>
  /\ INVENTORY_MKT_CSV = snap[2].inventory_mkt
  /\ StockChanged(INVENTORY_CSV, snap[2].inventory)
  /\ Len(SALES_CSV) > Len(snap[2].sales)

\* The rows of a ledger that are the last stored with their identity.
LastStored(file) ==
  RowsAt(file, {i \in DOMAIN file :
                  \A j \in DOMAIN file : file[j].source_id = file[i].source_id => j <= i}, 1)

\* A rollup by the field key has one row for each value of it among the rows,
\* with the quantity and the amount of those rows.
RollsUp(rollup, key, rows) ==
  /\ {rollup[i][key] : i \in DOMAIN rollup} = {rows[i][key] : i \in DOMAIN rows}
  /\ Len(rollup) = Cardinality({rows[i][key] : i \in DOMAIN rows})
  /\ \A i \in DOMAIN rollup :
       LET of == RowsAt(rows, {j \in DOMAIN rows : rows[j][key] = rollup[i][key]}, 1)
       IN /\ rollup[i].cantidad = SumField(of, "cantidad")
          /\ rollup[i].importe = SumField(of, "importe")

\* The extracts of the days of the rows hold those rows of their day.
ExtractsHold(dir, rows) ==
  \A f \in LedgerDates(rows) :
    f \in DOMAIN dir /\ LedgerPart(dir[f]) = RowsOn(rows, f)

\* C28: whatever a sale ledger holds, rows that share an identity included,
\* the reports a completed run has rebuilt for its scope (sales detail,
\* per-item rollup, per-day rollup, the extracts of the ledger's days, the
\* summary totals) count for each identity its last stored row and no other.
C28_ReportsCountLastStored ==
  Completed(1) =>
    LET gen == LastStored(SALES_CSV)
        mkt == LastStored(SALES_MKT_CSV)
    IN /\ LedgerPart(SALES_DETAIL_CSV) = gen
       /\ RollsUp(SALES_ITEM_CSV, "item", gen)
       /\ RollsUp(SALES_DAY_CSV, "fecha", gen)
       /\ ExtractsHold(DIARIO_DIR, gen)
       /\ REPORT_JSON.summary.total_ventas = SumField(gen, "cantidad")
       /\ REPORT_JSON.summary.total_importe = SumField(gen, "importe")
       /\ LedgerPart(SALES_MKT_DETAIL_CSV) = mkt
       /\ RollsUp(SALES_MKT_DAY_CSV, "fecha", mkt)
       /\ ExtractsHold(MKT_DIARIO_DIR, mkt)

\* A completed run has left in the general sale ledger two rows of one
\* identity with different quantities, and the detail and the summary count
\* the later one only.
C28_Witness ==
  /\ Completed(1)
  /\ \E i, j \in DOMAIN SALES_CSV :
       /\ i < j
       /\ SALES_CSV[i].source_id = SALES_CSV[j].source_id
       /\ SALES_CSV[i].cantidad # SALES_CSV[j].cantidad
       /\ Len(SALES_DETAIL_CSV) = Len(SALES_CSV) - 1
       /\ \E d \in DOMAIN SALES_DETAIL_CSV :
            /\ SALES_DETAIL_CSV[d].source_id = SALES_CSV[j].source_id
            /\ SALES_DETAIL_CSV[d].cantidad = SALES_CSV[j].cantidad
  /\ REPORT_JSON.summary.total_ventas < SumField(SALES_CSV, "cantidad")

====
